---- MODULE Spec2Model ----
(***************************************************************************)
(* Model of weibo-saver-js: the mail handler, the URL locator, the page    *)
(* fetch with its fallback record, the concurrent media batches and the    *)
(* save of the Markdown record.                                            *)
(*                                                                         *)
(* JavaScript strings are sequences of tokens.  A token is one character   *)
(* or one fixed phrase of the program that is only ever handled whole:     *)
(*   "M"  the marker phrase  更多精彩评论:                                 *)
(*   "A"  the anchor opener  <a href="                                     *)
(*   "h"  https://weibo.com  (the web prefix is "h" followed by "/")       *)
(*   "o"  https://other.example                                            *)
(*   "m"  the mobile prefix  https://m.weibo.cn/status/                    *)
(*   "W"  the subject marker 微博分享                                      *)
(*   "Q"  a double quote,  "G"  a ">",  "/" and "," themselves             *)
(* every other token is an ordinary character.                             *)
(***************************************************************************)
EXTENDS Integers, Sequences, FiniteSets, TLC

VARIABLES
    body,          \* locator check: the raw mail body handed to the locator
    urlResult,     \* locator check: result of extractWeiboUrlFromMailBody
    legacyResult,  \* locator check: result of getWeiboURLFromMailBody
    upc,           \* locator check: "start" or "located"
    fin,           \* function check: the arguments, tagged with the function
    fout,          \* function check: what the function returned
    fpc,           \* function check: "start" or "done"
    redNote,       \* RedNote run: the fetched document and what
                   \* fetchRedNoteContent returned for it, <<>> before
    files,         \* save stage: the Markdown files of the date directory,
                   \* each a pair <<name, whose content it holds>>
    saveRun,       \* save stage: where each of the concurrent runs is
                   \* between generateMarkdown and the end of saveToFile
    imap,          \* mail listener: the mailbox on the server, the IMAP
                   \* commands issued and not yet served, and how many
                   \* 'mail' events each message has produced
    page,          \* page fetch: the page, its window.$render_data and what
                   \* fetchWeiboContent made of it
    entry,         \* which program runs: "app" (src/app.js) or "legacy" (main.js)
    mailNo,        \* number of 'mail' events delivered so far
    mail,          \* the mail being handled, <<>> when none
    emailData,     \* what parseEmail returned, <<>> for null
    invoked,       \* processWeiboPost / fetchWeibo was called for this mail
    pc,            \* where the handler of this mail is suspended
    fetches,       \* page requests issued for this mail
    fetchResult,   \* how the page fetch ended
    parsed,        \* "none", or whether parseWeiboData returned ("ok") or threw
    weiboData,     \* the Post of this run, <<>> before it exists
    imgs,          \* state of each image download of the batch
    vids,          \* state of each video download of the batch
    imgJoined,     \* downloadImages has returned
    vidJoined,     \* downloadVideos has returned
    downloadedImages,  \* filenames returned by downloadImages
    downloadedVideos,  \* filenames returned by downloadVideos
    failedLog,     \* the URLs reported to the logger as failed
    finishOrder,   \* the items of this mail whose file is written, in the
                   \* order in which their write streams finished
    saved,         \* Markdown records written for this mail
    result,        \* how the handler of this mail ended
    failedStage,   \* the stage whose exception reached the outer catch
    prevFailed     \* an earlier mail's run ended in a failure of some stage

fnVars == <<fin, fout, fpc>>

saveVars == <<files, saveRun>>

\* the variables of the stages that are checked on their own
auxVars == <<saveVars, imap, page>>

\* the variables no step of the Weibo handlers writes
urlVars == <<body, urlResult, legacyResult, upc, fnVars, redNote, auxVars>>

runVars == <<mail, emailData, invoked, pc, fetches, fetchResult, parsed, weiboData,
             imgs, vids, imgJoined, vidJoined, downloadedImages,
             downloadedVideos, failedLog, finishOrder, saved, result,
             failedStage>>

pipeVars == <<entry, mailNo, prevFailed, runVars>>

vars == <<urlVars, pipeVars>>

-----------------------------------------------------------------------------
(* String primitives of JavaScript, over token sequences.                  *)

\* s.substring(i) with 1-based i: the tokens from position i on.
substring(s, i) == IF i > Len(s) THEN <<>> ELSE SubSeq(s, i, Len(s))

\* does sep occur in s at position i
OccursAt(s, sep, i) ==
    /\ i >= 1
    /\ i + Len(sep) - 1 <= Len(s)
    /\ SubSeq(s, i, i + Len(sep) - 1) = sep

\* s.indexOf(sep), 1-based, 0 when absent
indexOf(s, sep) ==
    LET hits == {i \in 1..Len(s) : OccursAt(s, sep, i)}
    IN  IF hits = {} THEN 0 ELSE CHOOSE i \in hits : \A j \in hits : i <= j

\* s.lastIndexOf(sep), 1-based, 0 when absent
lastIndexOf(s, sep) ==
    LET hits == {i \in 1..Len(s) : OccursAt(s, sep, i)}
    IN  IF hits = {} THEN 0 ELSE CHOOSE i \in hits : \A j \in hits : i >= j

\* s.includes(sep) of a string: a substring test
includes(s, sep) == sep = <<>> \/ indexOf(s, sep) # 0

\* s.startsWith(pre)
startsWith(s, pre) == OccursAt(s, pre, 1)

\* s.split(sep) for a non-empty separator: the pieces between the
\* non-overlapping occurrences of sep, scanned left to right.
RECURSIVE split(_, _)
split(s, sep) ==
    LET k == indexOf(s, sep)
    IN  IF k = 0
        THEN <<s>>
        ELSE <<SubSeq(s, 1, k - 1)>> \o split(substring(s, k + Len(sep)), sep)

\* array.pop(): the last element
pop(parts) == parts[Len(parts)]

\* array.includes(x): membership of an element, compared whole
arrayIncludes(arr, x) == \E i \in 1..Len(arr) : arr[i] = x

-----------------------------------------------------------------------------
(* text-processor.js: the URL locator.                                     *)

preString == <<"M">>
anchorOpen == <<"A">>
weiboUrlPre == <<"h", "/">>
mWeiboPre == <<"m">>
null == <<"null">>
THROWN == <<"throw">>

\* a body that is not a string (mailparser gives `false` for a mail without
\* an HTML part): one value standing for all of them
NotAString == <<"false">>

IsString(v) == v # NotAString

\* the catch of the current locator: any error becomes null
LocatorCatch_Rethrow(r) == r

LocatorCatch(r) == IF r = THROWN THEN null ELSE r

\* The body of the try block of the current locator.  `bodyHtml.split` is a
\* TypeError for a value that is not a string; nothing else in it throws.
LocatorTry(bodyHtml) ==
    IF ~IsString(bodyHtml) THEN THROWN
    ELSE
    LET urlPart == pop(split(bodyHtml, preString))
    IN  IF urlPart = <<>> THEN null
        ELSE LET linkParts == split(urlPart, anchorOpen)
             IN  IF Len(linkParts) < 2 THEN null
                 ELSE LET url == split(linkParts[2], <<"Q", "G">>)[1]
                      IN  IF ~startsWith(url, weiboUrlPre) THEN null
                          ELSE LET lastSlashIndex == lastIndexOf(url, <<"/">>)
                                   rawId == substring(url, lastSlashIndex + 1)
                                   weiboId == IF includes(rawId, <<"Q">>)
                                              THEN split(rawId, <<"Q">>)[1]
                                              ELSE rawId
                               IN  mWeiboPre \o weiboId

\* The current locator: the try block under its catch.
extractWeiboUrlFromMailBody(bodyHtml) == LocatorCatch(LocatorTry(bodyHtml))

\* The first locator (utils.js): no guard and no catch, so a body without an
\* anchor makes it throw a TypeError.
getWeiboURLFromMailBody(bodyHtml) ==
    IF ~IsString(bodyHtml) THEN THROWN
    ELSE
    LET linkParts == split(pop(split(bodyHtml, preString)), anchorOpen)
    IN  IF Len(linkParts) < 2 THEN THROWN
        ELSE LET url == split(linkParts[2], <<"Q", "G">>)[1]
             IN  IF ~startsWith(url, weiboUrlPre) THEN null
                 ELSE mWeiboPre \o substring(url, lastIndexOf(url, <<"/">>) + 1)

-----------------------------------------------------------------------------
(* Raw bodies for the locator check: every concatenation of at most        *)
(* MaxFrags fragments.                                                     *)

MaxFrags == 3

\* <a href="https://weibo.com/1/x">
AnchorX == <<"A", "h", "/", "1", "/", "x", "Q", "G">>
\* <a href="https://weibo.com/1/y">
AnchorY == <<"A", "h", "/", "1", "/", "y", "Q", "G">>
\* <a href="https://weibo.com/1/x" t="u/v">
AnchorAttr == <<"A", "h", "/", "1", "/", "x", "Q", "t", "Q", "u", "/", "v", "Q", "G">>
\* <a href="https://other.example/x">
AnchorOther == <<"A", "o", "/", "x", "Q", "G">>

Fragments ==
    { preString, AnchorX, AnchorY, AnchorAttr, AnchorOther,
      anchorOpen, weiboUrlPre, <<"/">>, <<"Q">>, <<"G">>, <<"x">> }

RECURSIVE Concats(_)
Concats(n) ==
    IF n = 0 THEN {<<>>}
    ELSE LET P == Concats(n - 1) IN P \cup {p \o f : p \in P, f \in Fragments}

Bodies == Concats(MaxFrags) \cup {NotAString}

\* the runs of processWeiboPost that are in flight together
Runs == {"a", "b"}

\* no run at the save stage
IdleSave ==
    /\ files = {}
    /\ saveRun = [r \in Runs |-> [pc |-> "unused", counter |-> 1, candidate |-> 0,
                              chosen |-> 0]]

\* no listener and no page
IdleAux ==
    /\ IdleSave
    /\ imap = [started |-> FALSE]
    /\ page = [pc |-> "unused"]

\* no function check in progress
IdleFn ==
    /\ redNote = <<>>
    /\ IdleAux
    /\ fin = [fn |-> "none"]
    /\ fout = [fn |-> "none"]
    /\ fpc = "unused"

\* the handler's variables before any mail has arrived
IdleRun ==
    /\ mail = <<>>
    /\ emailData = <<>>
    /\ invoked = FALSE
    /\ pc = "idle"
    /\ fetches = 0
    /\ fetchResult = "none"
    /\ parsed = "none"
    /\ weiboData = <<>>
    /\ imgs = <<>>
    /\ vids = <<>>
    /\ imgJoined = FALSE
    /\ vidJoined = FALSE
    /\ downloadedImages = <<>>
    /\ downloadedVideos = <<>>
    /\ failedLog = {}
    /\ finishOrder = <<>>
    /\ saved = 0
    /\ result = "none"
    /\ failedStage = "none"

InitUrl ==
    /\ body \in Bodies
    /\ urlResult = <<>>
    /\ legacyResult = <<>>
    /\ upc = "start"
    /\ IdleFn
    /\ entry = "app"
    /\ mailNo = 0
    /\ prevFailed = FALSE
    /\ IdleRun

\* parseEmail's call of the locator
Locate ==
    /\ upc = "start"
    /\ urlResult' = extractWeiboUrlFromMailBody(body)
    /\ legacyResult' = getWeiboURLFromMailBody(body)
    /\ upc' = "located"
    /\ UNCHANGED <<body, fnVars, redNote, auxVars, pipeVars>>

NextUrl == Locate

SpecUrl == InitUrl /\ [][NextUrl]_vars

-----------------------------------------------------------------------------
(* Configuration and the mails the listener can deliver.                   *)

\* process.env.MAIL_ALLOWED_FROM, e.g. "ali,bo"
MAIL_ALLOWED_FROM == <<"a", "l", "i", ",", "b", "o">>

\* config.mail.allowedFrom
allowedFrom == split(MAIL_ALLOWED_FROM, <<",">>)

\* config.weibo.subjectFilter
subjectFilter == <<"W">>

Senders == { <<"a", "l", "i">>, <<"l", "i">>, <<"e", "v", "e">> }

Subjects == { <<"x", "W">>, <<"x">> }

MailBodies == { preString \o AnchorX, preString \o <<"x">>, preString \o AnchorOther }

Mails == [from : Senders, subject : Subjects, html : MailBodies]

\* parseEmail without its `if (!weiboUrl) return null`
parseEmail_NoUrlCheck(m) ==
    IF ~arrayIncludes(allowedFrom, m.from) \/ ~includes(m.subject, subjectFilter)
    THEN <<>>
    ELSE <<[fromAddress |-> m.from, subject |-> m.subject,
            mailBody |-> m.html, weiboUrl |-> extractWeiboUrlFromMailBody(m.html)]>>

\* mail-parser.js parseEmail: null (<<>>) or the email data
parseEmail(m) ==
    IF ~arrayIncludes(allowedFrom, m.from) \/ ~includes(m.subject, subjectFilter)
    THEN <<>>
    ELSE LET weiboUrl == extractWeiboUrlFromMailBody(m.html)
         IN  IF weiboUrl = null THEN <<>>
             ELSE <<[fromAddress |-> m.from, subject |-> m.subject,
                     mailBody |-> m.html, weiboUrl |-> weiboUrl]>>

\* main.js: the guard of the first 'mail' handler, a substring test on the
\* environment string
legacyGuard(m) ==
    includes(MAIL_ALLOWED_FROM, m.from) /\ includes(m.subject, subjectFilter)

-----------------------------------------------------------------------------
(* The page and the Post.                                                  *)

MaxPics == 2
MaxVids == 1

\* a picture item gives a URL string, a truthy value that is no string, or
\* nothing (neither large.url nor url)
PicKinds == {"url", "bad", "none"}
VideoKinds == {"url", "bad"}

Range(f) == {f[i] : i \in DOMAIN f}

RECURSIVE SeqsUpTo(_, _)
SeqsUpTo(S, n) ==
    IF n = 0 THEN {<<>>}
    ELSE LET P == SeqsUpTo(S, n - 1) IN P \cup {Append(p, x) : p \in P, x \in S}

\* window.$render_data as the page scripts left it
RawDatas ==
    { [status |-> FALSE, created_at |-> "valid", pics |-> <<>>, video |-> <<>>] }
    \cup [status : {TRUE}, created_at : {"valid", "invalid"},
          pics : SeqsUpTo(PicKinds, MaxPics), video : SeqsUpTo(VideoKinds, MaxVids)]

\* how got.get and the read of $render_data can end
FetchOutcomes == {"network_error", "bad_status", "no_data", "data"}

\* weibo-parser.js parseWeiboData throws: no status object, or a created_at
\* that new Date(...).toISOString() rejects
parseThrows(rd) == ~rd.status \/ rd.created_at = "invalid"

IsTruthy(k) == k # "none"

\* weibo-parser.js parseWeiboData for data it accepts
parseWeiboData(rd) ==
    [ outerUser |-> "user",
      outerTextMD |-> <<"t">>,
      originUser |-> "",
      originTextMD |-> <<>>,
      largeImgs |-> SelectSeq(rd.pics, IsTruthy),
      videoPageUrls |-> rd.video ]

\* a fallback record that carries a picture and a video
createFallbackWeiboData_WithMedia(error, mailBody) ==
    [ outerUser |-> "Error",
      outerTextMD |-> <<"uuid", error>>,
      originUser |-> "MailBody",
      originTextMD |-> mailBody,
      largeImgs |-> <<"url">>,
      videoPageUrls |-> <<"url">> ]

\* weibo-fetcher.js createFallbackWeiboData
createFallbackWeiboData(error, mailBody) ==
    [ outerUser |-> "Error",
      outerTextMD |-> <<"uuid", error>>,
      originUser |-> "MailBody",
      originTextMD |-> mailBody,
      largeImgs |-> <<>>,
      videoPageUrls |-> <<>> ]

\* the marker of an exception leaving a block
Thrown == [thrown |-> TRUE]

\* the inner try without its catch: the error leaves the block
PostAfterFetch_Rethrow(outcome, rd, mailBody) ==
    IF outcome # "data" \/ parseThrows(rd) THEN Thrown ELSE parseWeiboData(rd)

\* app.js lines 28-37: fetchWeiboContent and parseWeiboData inside the
\* inner try, createFallbackWeiboData in its catch
PostAfterFetch(outcome, rd, mailBody) ==
    IF outcome # "data" THEN createFallbackWeiboData(outcome, mailBody)
    ELSE IF parseThrows(rd) THEN createFallbackWeiboData("parse", mailBody)
    ELSE parseWeiboData(rd)

\* an outer catch that throws the error on
OuterCatch_Rethrow(stage) == "rejected"

\* app.js lines 75-77: the outer catch logs and returns
OuterCatch(stage) == "caught"

-----------------------------------------------------------------------------
(* media-downloader.js                                                     *)

\* downloadImages / downloadVideos test each entry before dispatching it
IsUrlString(k) == k = "url"

\* urls.map(...): every entry is dispatched in the one synchronous pass;
\* an entry that is no string resolves at once with a null title
DispatchAll(urls) ==
    [i \in 1..Len(urls) |-> IF IsUrlString(urls[i]) THEN "pending" ELSE "nulled"]

\* the batch before its dispatch
NotDispatched(urls) == [i \in 1..Len(urls) |-> "idle"]

Fulfilled == {"written", "nulled"}
Rejected == {"bad_status", "stream_error"}
Settled == Fulfilled \cup Rejected

\* a join in the manner of Promise.all: over at the first rejection
AllSettledJoin_FirstFailure(items) ==
    \/ \E i \in 1..Len(items) : items[i] \in Rejected
    \/ \A i \in 1..Len(items) : items[i] \in Fulfilled

\* Promise.allSettled(downloadPromises) has resolved
AllSettledJoin(items) == \A i \in 1..Len(items) : items[i] \in Settled

\* a batch that fails as Promise.all does, when one item is rejected
BatchRejects_PromiseAll(items) == \E i \in 1..Len(items) : items[i] \in Rejected

\* downloadImages / downloadVideos throw (lines 102-105, 198-201) only if
\* something inside their try throws; the all-settled join never rejects
\* and every rejection reason is an object, so nothing does
BatchRejects(items) == FALSE

\* the title given to entry i of the batch carries its index
NullTitle == 0 - 1
TitleOf(items, i) == IF items[i] = "nulled" THEN NullTitle ELSE i - 1

RECURSIVE TitlesFrom(_, _)
TitlesFrom(items, i) ==
    IF i > Len(items) THEN <<>>
    ELSE (IF items[i] \in Fulfilled THEN <<TitleOf(items, i)>> ELSE <<>>)
         \o TitlesFrom(items, i + 1)

\* the results mapped to titles without the filter on `fulfilled`
successfulDownloads_Unfiltered(items) == [i \in 1..Len(items) |-> TitleOf(items, i)]

\* the titles in the order in which the downloads completed
successfulDownloads_AsCompleted(items) ==
    LET kind == IF pc = "images" THEN "image" ELSE "video"
        done == SelectSeq(finishOrder, LAMBDA e : e[1] = kind)
    IN  [k \in 1..Len(done) |-> done[k][2] - 1]

\* results.filter(fulfilled).map(value.imageTitle)
successfulDownloads(items) == TitlesFrom(items, 1)

\* results.filter(rejected).map(reason.url), handed to logger.warn
failedDownloads(kind, items) ==
    {<<kind, i - 1>> : i \in {j \in 1..Len(items) : items[j] \in Rejected}}

-----------------------------------------------------------------------------
(* The handler of the 'mail' event in src/app.js and processWeiboPost.     *)
(* One action is one turn of the event loop: the code from one await to    *)
(* the next.                                                               *)

MaxMails == 2

Val(opt) == opt[1]

\* the orchestrators that share media-downloader.js, template-renderer.js
\* and file-manager.js: processWeiboPost and processRedNotePost
PostEntries == {"app", "rednote"}

\* the URL lists of the Post of the run: largeImgs / videoPageUrls of a
\* Weibo Post, images / videos of a RedNote post (all of them strings)
ImageUrlsOf(wd) ==
    IF entry = "rednote" THEN [i \in 1..Len(wd.images) |-> "url"] ELSE wd.largeImgs

VideoUrlsOf(wd) ==
    IF entry = "rednote" THEN [i \in 1..Len(wd.videos) |-> "url"] ELSE wd.videoPageUrls

\* rednote-saver.js lines 96-99: the outer catch of processRedNotePost logs
\* and throws the error on
RedNoteOuterCatch(stage) == "rejected"

\* both batches started together
VideosWhileImages_Eager(urls) == DispatchAll(urls)

\* app.js lines 49-54: downloadVideos is called only after the await of
\* downloadImages, so the video entries wait while the images are in flight
VideosWhileImages(urls) == NotDispatched(urls)

\* the exception of `stage` reaches the outer catch of the orchestrator
Abort(stage) ==
    /\ pc' = "done"
    /\ result' = IF entry = "rednote" THEN RedNoteOuterCatch(stage) ELSE OuterCatch(stage)
    /\ failedStage' = stage

\* app.js lines 49-62: the video batch, or generateMarkdown when there is
\* no video
StartVideos(wd) ==
    IF Len(VideoUrlsOf(wd)) > 0
    THEN vids' = DispatchAll(VideoUrlsOf(wd)) /\ pc' = "videos"
    ELSE vids' = <<>> /\ pc' = "rendering"

\* app.js lines 42-62: the image batch, or what follows it when there is
\* no image
StartMedia(wd) ==
    IF Len(ImageUrlsOf(wd)) > 0
    THEN /\ imgs' = DispatchAll(ImageUrlsOf(wd))
         /\ vids' = VideosWhileImages(VideoUrlsOf(wd))
         /\ pc' = "images"
    ELSE /\ imgs' = <<>>
         /\ StartVideos(wd)

\* app.js lines 105-115 and 20-32: the 'mail' handler up to the await of
\* fetchWeiboContent
AppMail(m, dirOk) ==
    /\ entry = "app"
    /\ pc = "idle"
    /\ mailNo < MaxMails
    /\ mailNo' = mailNo + 1
    /\ mail' = <<m>>
    /\ emailData' = parseEmail(m)
    /\ IF parseEmail(m) = <<>>
       THEN /\ invoked' = FALSE
            /\ pc' = "done"
            /\ result' = "skipped"
            /\ UNCHANGED <<fetches, fetchResult, failedStage>>
       ELSE /\ invoked' = TRUE
            /\ IF dirOk
               THEN /\ fetches' = fetches + 1
                    /\ fetchResult' = "pending"
                    /\ pc' = "fetching"
                    /\ UNCHANGED <<result, failedStage>>
               ELSE /\ Abort("dir")
                    /\ UNCHANGED <<fetches, fetchResult>>
    /\ UNCHANGED <<urlVars, finishOrder, entry, prevFailed, parsed, weiboData, imgs, vids,
                   imgJoined, vidJoined, downloadedImages, downloadedVideos,
                   failedLog, saved>>

\* app.js lines 32-54: the page fetch settles; the Post is built and the
\* first media batch is dispatched
AppFetchSettle(outcome, rd) ==
    /\ entry = "app"
    /\ pc = "fetching"
    /\ fetchResult' = outcome
    /\ parsed' = IF outcome # "data" THEN "none"
                 ELSE IF parseThrows(rd) THEN "threw" ELSE "ok"
    /\ LET post == PostAfterFetch(outcome, rd, Val(emailData).mailBody)
       IN  IF post = Thrown
           THEN /\ Abort("fetch")
                /\ UNCHANGED <<weiboData, imgs, vids>>
           ELSE /\ weiboData' = <<post>>
                /\ StartMedia(post)
                /\ UNCHANGED <<result, failedStage>>
    /\ UNCHANGED <<urlVars, finishOrder, entry, mailNo, prevFailed, mail, emailData, invoked,
                   fetches, imgJoined, vidJoined, downloadedImages,
                   downloadedVideos, failedLog, saved>>

\* one entry of the batch in flight changes its state
ItemStep(kind, i, from, to) ==
    /\ entry \in PostEntries
    /\ IF kind = "image"
       THEN /\ pc = "images"
            /\ i \in 1..Len(imgs)
            /\ imgs[i] \in from
            /\ imgs' = [imgs EXCEPT ![i] = to]
            /\ UNCHANGED vids
       ELSE /\ pc = "videos"
            /\ i \in 1..Len(vids)
            /\ vids[i] \in from
            /\ vids' = [vids EXCEPT ![i] = to]
            /\ UNCHANGED imgs
    /\ finishOrder' = IF to = "written" THEN Append(finishOrder, <<kind, i>>)
                      ELSE finishOrder
    /\ UNCHANGED <<urlVars, entry, mailNo, prevFailed, mail, emailData, invoked,
                   pc, fetches, fetchResult, parsed, weiboData, imgJoined,
                   vidJoined, downloadedImages, downloadedVideos, failedLog,
                   saved, result, failedStage>>

\* downloadImage / downloadVideo: 'response' with status 200, the body is
\* piped to the file
ItemResponseOk(kind, i) == ItemStep(kind, i, {"pending"}, "streaming")

\* 'response' with another status: the stream is destroyed, reject({url})
ItemResponseBad(kind, i) == ItemStep(kind, i, {"pending"}, "bad_status")

\* 'error' of the read stream or of the write stream: reject({url, error})
ItemError(kind, i) == ItemStep(kind, i, {"pending", "streaming"}, "stream_error")

\* a download that resolves as soon as the response has come
ItemFinish_AtResponse(kind, i) == ItemStep(kind, i, {"pending", "streaming"}, "written")

\* 'finish' of the write stream: resolve({imageTitle})
ItemFinish(kind, i) == ItemStep(kind, i, {"streaming"}, "written")

\* downloadImages returns (lines 79-101) and processWeiboPost goes on to
\* the videos (app.js lines 45-54)
ImagesJoin ==
    /\ entry \in PostEntries
    /\ pc = "images"
    /\ AllSettledJoin(imgs)
    /\ IF BatchRejects(imgs)
       THEN /\ Abort("media")
            /\ UNCHANGED <<imgJoined, downloadedImages, failedLog, vids>>
       ELSE /\ imgJoined' = TRUE
            /\ downloadedImages' = successfulDownloads(imgs)
            /\ failedLog' = failedLog \cup failedDownloads("image", imgs)
            /\ StartVideos(Val(weiboData))
            /\ UNCHANGED <<result, failedStage>>
    /\ UNCHANGED <<urlVars, finishOrder, entry, mailNo, prevFailed, mail, emailData, invoked,
                   fetches, fetchResult, parsed, weiboData, imgs, vidJoined,
                   downloadedVideos, saved>>

\* downloadVideos returns (lines 175-197) and generateMarkdown starts to
\* load the template (app.js lines 52-62)
VideosJoin ==
    /\ entry \in PostEntries
    /\ pc = "videos"
    /\ AllSettledJoin(vids)
    /\ IF BatchRejects(vids)
       THEN /\ Abort("media")
            /\ UNCHANGED <<vidJoined, downloadedVideos, failedLog>>
       ELSE /\ vidJoined' = TRUE
            /\ downloadedVideos' = successfulDownloads(vids)
            /\ failedLog' = failedLog \cup failedDownloads("video", vids)
            /\ pc' = "rendering"
            /\ UNCHANGED <<result, failedStage>>
    /\ UNCHANGED <<urlVars, finishOrder, entry, mailNo, prevFailed, mail, emailData, invoked,
                   fetches, fetchResult, parsed, weiboData, imgs, vids,
                   imgJoined, downloadedImages, saved>>

\* generateMarkdown settles (template load and render); on success
\* generateUniqueFilename runs and saveToFile starts the write
RenderSettle(ok) ==
    /\ entry \in PostEntries
    /\ pc = "rendering"
    /\ IF ok
       THEN pc' = "saving" /\ UNCHANGED <<result, failedStage>>
       ELSE Abort("render")
    /\ UNCHANGED <<urlVars, finishOrder, entry, mailNo, prevFailed, mail, emailData, invoked,
                   fetches, fetchResult, parsed, weiboData, imgs, vids,
                   imgJoined, vidJoined, downloadedImages, downloadedVideos,
                   failedLog, saved>>

\* fs.writeFile calls back: the record is on disk, or the error is thrown
\* into the outer catch
SaveSettle(ok) ==
    /\ entry \in PostEntries
    /\ pc = "saving"
    /\ IF ok
       THEN /\ saved' = saved + 1
            /\ pc' = "done"
            /\ result' = "saved"
            /\ UNCHANGED failedStage
       ELSE /\ Abort("save")
            /\ UNCHANGED saved
    /\ UNCHANGED <<urlVars, finishOrder, entry, mailNo, prevFailed, mail, emailData, invoked,
                   fetches, fetchResult, parsed, weiboData, imgs, vids,
                   imgJoined, vidJoined, downloadedImages, downloadedVideos,
                   failedLog>>

\* some stage of the run that just ended had failed
RunHadFailure ==
    \/ failedStage # "none"
    \/ fetchResult \in {"network_error", "bad_status", "no_data"}
    \/ parsed = "threw"
    \/ \E i \in 1..Len(imgs) : imgs[i] \in Rejected
    \/ \E i \in 1..Len(vids) : vids[i] \in Rejected

\* the handler has returned; the listener is free to deliver the next mail.
\* A rejected handler promise or an uncaught exception ends the process.
NextMail ==
    /\ pc = "done"
    /\ result \notin {"rejected", "crashed"}
    /\ mailNo < MaxMails
    /\ prevFailed' = (prevFailed \/ RunHadFailure)
    /\ mail' = <<>>
    /\ emailData' = <<>>
    /\ invoked' = FALSE
    /\ pc' = "idle"
    /\ fetches' = 0
    /\ fetchResult' = "none"
    /\ parsed' = "none"
    /\ weiboData' = <<>>
    /\ imgs' = <<>>
    /\ vids' = <<>>
    /\ imgJoined' = FALSE
    /\ vidJoined' = FALSE
    /\ downloadedImages' = <<>>
    /\ downloadedVideos' = <<>>
    /\ failedLog' = {}
    /\ saved' = 0
    /\ result' = "none"
    /\ failedStage' = "none"
    /\ finishOrder' = <<>>
    /\ UNCHANGED <<urlVars, entry, mailNo>>

-----------------------------------------------------------------------------
(* The first program: the 'mail' handler of main.js and fetchWeibo of      *)
(* src/fetchWeibo.js.                                                      *)

\* main.js lines 46-51: the handler's catch around `await fetchWeibo`
LegacyCatch(stage) == "caught"

LegacyAbort(stage) ==
    /\ pc' = "done"
    /\ result' = LegacyCatch(stage)
    /\ failedStage' = stage

\* fetchWeibo.js parseWeiboData throws on an absent data object as well
legacyParseThrows(outcome, rd) == outcome = "no_data" \/ parseThrows(rd)

\* fetchWeibo.js parseWeiboData: the picture URLs are not filtered, and
\* this version downloads no video
legacyParseWeiboData(rd) ==
    [ outerUser |-> "user",
      outerTextMD |-> <<"t">>,
      originUser |-> "",
      originTextMD |-> <<>>,
      largeImgs |-> rd.pics,
      videoPageUrls |-> <<>> ]

\* fetchWeibo.js lines 25-38
legacyPost(outcome, rd, mailBody) ==
    IF legacyParseThrows(outcome, rd)
    THEN createFallbackWeiboData("parse", mailBody)
    ELSE legacyParseWeiboData(rd)

\* fetchWeibo.js lines 101-103: got.stream(url) is called for every entry;
\* for an entry that is no string it throws inside the promise executor
DispatchLegacy(urls) ==
    [i \in 1..Len(urls) |-> IF IsUrlString(urls[i]) THEN "pending" ELSE "threw"]

\* fetchWeibo.js resolves an item at its 'response', before the file is
\* written
LegacyFulfilled == {"streaming", "written"}
LegacyRejected == {"bad_status", "threw"}

\* fetchWeibo.js lines 121-143: the template is read and the record is
\* written synchronously
LegacyWrite(writeOk) ==
    IF writeOk
    THEN /\ saved' = saved + 1
         /\ pc' = "done"
         /\ result' = "saved"
         /\ UNCHANGED failedStage
    ELSE /\ LegacyAbort("save")
         /\ UNCHANGED saved

\* main.js lines 39-54 and fetchWeibo.js lines 14-18
LegacyMail(m) ==
    /\ entry = "legacy"
    /\ pc = "idle"
    /\ mailNo < MaxMails
    /\ mailNo' = mailNo + 1
    /\ mail' = <<m>>
    /\ IF ~legacyGuard(m)
       THEN /\ invoked' = FALSE
            /\ pc' = "done"
            /\ result' = "skipped"
            /\ UNCHANGED <<fetches, fetchResult, failedStage>>
       ELSE /\ invoked' = TRUE
            /\ IF getWeiboURLFromMailBody(m.html) \in {THROWN, null}
               THEN /\ LegacyAbort("locate")
                    /\ UNCHANGED <<fetches, fetchResult>>
               ELSE /\ fetches' = fetches + 1
                    /\ fetchResult' = "pending"
                    /\ pc' = "fetching"
                    /\ UNCHANGED <<result, failedStage>>
    /\ UNCHANGED <<urlVars, finishOrder, entry, prevFailed, emailData, parsed, weiboData,
                   imgs, vids, imgJoined, vidJoined, downloadedImages,
                   downloadedVideos, failedLog, saved>>

\* fetchWeibo.js lines 18-105 (and to the end when there is no picture)
LegacyFetchSettle(outcome, rd, dirOk, writeOk) ==
    /\ entry = "legacy"
    /\ pc = "fetching"
    /\ fetchResult' = outcome
    /\ IF outcome \in {"network_error", "bad_status"}
       THEN /\ LegacyAbort("fetch")
            /\ UNCHANGED <<parsed, weiboData, imgs, saved>>
       ELSE LET post == legacyPost(outcome, rd, Val(mail).html)
                items == DispatchLegacy(post.largeImgs)
            IN  /\ parsed' = IF legacyParseThrows(outcome, rd) THEN "threw" ELSE "ok"
                /\ weiboData' = <<post>>
                /\ IF ~dirOk
                   THEN /\ LegacyAbort("dir")
                        /\ UNCHANGED <<imgs, saved>>
                   ELSE IF Len(post.largeImgs) = 0
                   THEN /\ LegacyWrite(writeOk)
                        /\ UNCHANGED imgs
                   ELSE /\ imgs' = items
                        /\ UNCHANGED saved
                        /\ IF \E i \in 1..Len(items) : items[i] \in LegacyRejected
                           THEN LegacyAbort("media")
                           ELSE pc' = "images" /\ UNCHANGED <<result, failedStage>>
    /\ UNCHANGED <<urlVars, finishOrder, entry, mailNo, prevFailed, mail, emailData, invoked,
                   fetches, vids, imgJoined, vidJoined, downloadedImages,
                   downloadedVideos, failedLog>>

\* fetchWeibo.js lines 79-104: the 'response' of one picture; Promise.all
\* rejects on the first failure and resolves once every item has resolved
LegacyPicResponse(i, ok, writeOk) ==
    /\ entry = "legacy"
    /\ pc = "images"
    /\ i \in 1..Len(imgs)
    /\ imgs[i] = "pending"
    /\ imgs' = [imgs EXCEPT ![i] = IF ok THEN "streaming" ELSE "bad_status"]
    /\ IF ~ok
       THEN /\ LegacyAbort("media")
            /\ UNCHANGED <<saved, imgJoined, downloadedImages>>
       ELSE IF \A j \in 1..Len(imgs) : j # i => imgs[j] \in LegacyFulfilled
       THEN /\ imgJoined' = TRUE
            /\ downloadedImages' = [j \in 1..Len(imgs) |-> j - 1]
            /\ LegacyWrite(writeOk)
       ELSE UNCHANGED <<pc, result, failedStage, saved, imgJoined, downloadedImages>>
    /\ UNCHANGED <<urlVars, finishOrder, entry, mailNo, prevFailed, mail, emailData, invoked,
                   fetches, fetchResult, parsed, weiboData, vids, vidJoined,
                   downloadedVideos, failedLog>>

\* the piped file of a resolved picture is complete
LegacyPicFinish(i) ==
    /\ entry = "legacy"
    /\ i \in 1..Len(imgs)
    /\ imgs[i] = "streaming"
    /\ imgs' = [imgs EXCEPT ![i] = "written"]
    /\ UNCHANGED <<urlVars, finishOrder, entry, mailNo, prevFailed, mail, emailData, invoked,
                   pc, fetches, fetchResult, parsed, weiboData, vids, imgJoined,
                   vidJoined, downloadedImages, downloadedVideos, failedLog,
                   saved, result, failedStage>>

\* the read stream emits 'error' and fetchWeibo.js registered no listener
\* for it: the exception is uncaught and ends the process
LegacyPicError(i) ==
    /\ entry = "legacy"
    /\ result # "crashed"
    /\ i \in 1..Len(imgs)
    /\ imgs[i] \in {"pending", "streaming"}
    /\ imgs' = [imgs EXCEPT ![i] = "stream_error"]
    /\ pc' = "done"
    /\ result' = "crashed"
    /\ UNCHANGED <<urlVars, finishOrder, entry, mailNo, prevFailed, mail, emailData, invoked,
                   fetches, fetchResult, parsed, weiboData, vids, imgJoined,
                   vidJoined, downloadedImages, downloadedVideos, failedLog,
                   saved, failedStage>>

-----------------------------------------------------------------------------

NoData == [status |-> FALSE, created_at |-> "valid", pics |-> <<>>, video |-> <<>>]

\* the page data that can come with an outcome of the fetch
DataFor(outcome) == IF outcome = "data" THEN RawDatas ELSE {NoData}

MediaKinds == {"image", "video"}

Init ==
    /\ body = <<>>
    /\ urlResult = <<>>
    /\ legacyResult = <<>>
    /\ upc = "unused"
    /\ IdleFn
    /\ entry \in {"app", "legacy"}
    /\ mailNo = 0
    /\ prevFailed = FALSE
    /\ IdleRun

Next ==
    \/ \E m \in Mails, dirOk \in BOOLEAN : AppMail(m, dirOk)
    \/ \E outcome \in FetchOutcomes : \E rd \in DataFor(outcome) :
            AppFetchSettle(outcome, rd)
    \/ \E kind \in MediaKinds, i \in 1..(MaxPics + MaxVids) : ItemResponseOk(kind, i)
    \/ \E kind \in MediaKinds, i \in 1..(MaxPics + MaxVids) : ItemResponseBad(kind, i)
    \/ \E kind \in MediaKinds, i \in 1..(MaxPics + MaxVids) : ItemError(kind, i)
    \/ \E kind \in MediaKinds, i \in 1..(MaxPics + MaxVids) : ItemFinish(kind, i)
    \/ ImagesJoin
    \/ VideosJoin
    \/ \E ok \in BOOLEAN : RenderSettle(ok)
    \/ \E ok \in BOOLEAN : SaveSettle(ok)
    \/ \E m \in Mails : LegacyMail(m)
    \/ \E outcome \in FetchOutcomes : \E rd \in DataFor(outcome) :
            \E dirOk \in BOOLEAN, writeOk \in BOOLEAN :
                LegacyFetchSettle(outcome, rd, dirOk, writeOk)
    \/ \E i \in 1..MaxPics, ok \in BOOLEAN, writeOk \in BOOLEAN :
            LegacyPicResponse(i, ok, writeOk)
    \/ \E i \in 1..MaxPics : LegacyPicFinish(i)
    \/ \E i \in 1..MaxPics : LegacyPicError(i)
    \/ NextMail

Spec == Init /\ [][Next]_vars

-----------------------------------------------------------------------------
(* Pure functions checked on their own.  In this part a token is one       *)
(* character ("Q" a double quote and "G" a ">", as above) unless it is     *)
(* named as a phrase.                                                      *)

\* text-processor.js truncateText: the default of maxLength
maxLength == 40

\* the length of the string uuidv4() returns
UuidLen == 36

\* text.replace(/[...]/g, ''): the string without the characters of a class
without(text, class) == SelectSeq(text, LAMBDA c : c \notin class)

InvalidFilenameChars == {"\\", "/", ":", "*", "?", "Q", "<", "G", "|"}

Whitespace == {" ", "\n", "\t"}

\* text-processor.js createFilenameFromTitle
createFilenameFromTitle(text) ==
    LET noInvalid == without(text, InvalidFilenameChars)
        noHash    == without(noInvalid, {"#"})
        noUrl     == split(noHash, <<"(", "h", "t", "t", "p", "s">>)[1]
        noWiki    == split(noUrl, <<"!", "[", "[">>)[1]
    IN  without(noWiki, Whitespace)

\* text-processor.js truncateText
truncateText(text, max) ==
    IF text = <<>> \/ Len(text) <= max THEN text ELSE SubSeq(text, 1, max)

\* text-processor.js generatePostTitle, maxLength at its default
generatePostTitle(text, username) ==
    createFilenameFromTitle(username \o <<"-">> \o truncateText(text, maxLength))

\* the text with the error placed before the discriminator
fallbackText_ErrorFirst(uuid, message) == message \o uuid

\* createFallbackWeiboData, outerTextMD: uuidv4() + error.message
fallbackText(uuid, message) == uuid \o message

\* createFallbackWeiboData, outerUser
ErrorUser == <<"E", "r", "r", "o", "r">>

\* generateWeiboTitle of a fallback record
fallbackTitle(uuid, message) == generatePostTitle(fallbackText(uuid, message), ErrorUser)

\* generateUniqueFilename in a directory that holds no file of that name
mdFilename(title) == title \o <<".", "m", "d">>

\* version-4 UUIDs: hexadecimal digits with "-" at four places; these
\* differ from one another at the first, a middle or the last place
UuidVaryAt == {1, 20, UuidLen}

UuidOf(marked) ==
    [i \in 1..UuidLen |->
        IF i \in {9, 14, 19, 24} THEN "-"
        ELSE IF i = 15 THEN "4"
        ELSE IF i \in marked THEN "a" ELSE "0"]

Uuids == {UuidOf(marked) : marked \in SUBSET UuidVaryAt}

\* error messages: empty, longer than maxLength, and ones made of the
\* characters createFilenameFromTitle removes or cuts at
ErrorMessages ==
    { <<>>,
      [i \in 1..(maxLength + 4) |-> "e"],
      <<"(", "h", "t", "t", "p", "s", ":", "/">>,
      <<"!", "[", "[", "#", " ", "e">>,
      <<"e", " ", "4", "0", "4">> }

TitleInputs ==
    [fn : {"title"}, uuid1 : Uuids, uuid2 : Uuids, message : ErrorMessages]

\* two failures of the same source with the same error
ApplyTitle ==
    /\ fpc = "start"
    /\ fin.fn = "title"
    /\ fout' = [fn |-> "title",
                title1 |-> fallbackTitle(fin.uuid1, fin.message),
                title2 |-> fallbackTitle(fin.uuid2, fin.message)]
    /\ fpc' = "done"
    /\ UNCHANGED <<fin, body, urlResult, legacyResult, upc, redNote, auxVars, pipeVars>>

-----------------------------------------------------------------------------
(* rednote-fetcher.js: the heuristic extractor.  A document is the         *)
(* sequence of its elements in document order; an element has the set of  *)
(* selectors it matches, its textContent and its attributes (an attribute  *)
(* that is absent and one that is empty are both <<>>: the code tests      *)
(* them for truthiness only).  "http", "avatar" and "picasso" are tokens.  *)

SELECTORS_text == <<".content-container", ".note-card-title">>

SELECTORS_images == <<".note-slider-img">>

SELECTORS_videos == <<"video source", "video", ".video-container video", ".media-video",
                      ".video-player", ".video-content video", "source[video/mp4]",
                      ".status-video">>

SELECTORS_author == <<".author-username", ".note-card-name", "meta[og:author]",
                      "meta[name=author]">>

SELECTORS_title == <<".title", ".note-card-title", "meta[og:title]", "h1">>

\* selector.includes('meta')
selectorIsMeta(selector) ==
    selector \in {"meta[og:author]", "meta[name=author]", "meta[og:title]", "meta[og:video]",
                 "meta[article:published_time]"}

AttrNames == {"src", "data-src", "data-original", "data-url", "data-video", "content",
              "datetime"}

NoAttrs == [a \in AttrNames |-> <<>>]

\* an element with text only, and one with a single attribute
TextElement(sels, text) == [sels |-> sels, text |-> text, attrs |-> NoAttrs]

AttrElement(sels, name, value) ==
    [sels |-> sels, text |-> <<>>, attrs |-> [NoAttrs EXCEPT ![name] = value]]

\* s.trim()
RECURSIVE trimStart(_)
trimStart(str) ==
    IF str # <<>> /\ Head(str) \in Whitespace THEN trimStart(Tail(str)) ELSE str

RECURSIVE trimEnd(_)
trimEnd(str) ==
    IF str # <<>> /\ str[Len(str)] \in Whitespace
    THEN trimEnd(SubSeq(str, 1, Len(str) - 1)) ELSE str

trim(str) == trimEnd(trimStart(str))

\* document.querySelectorAll(selector): the positions of the matching
\* elements, in document order
querySelectorAll(document, selector) ==
    LET hits == {i \in 1..Len(document) : selector \in document[i].sels}
        RECURSIVE inOrder(_)
        inOrder(i) == IF i > Len(document) THEN <<>>
                      ELSE (IF i \in hits THEN <<i>> ELSE <<>>) \o inOrder(i + 1)
    IN  inOrder(1)

\* document.querySelector(selector): the first match, 0 for null
querySelector(document, selector) ==
    LET all == querySelectorAll(document, selector)
    IN  IF all = <<>> THEN 0 ELSE all[1]

\* what a loop of extractAuthor / extractTitle reads from the element of a
\* selector: the content attribute for a meta selector, else textContent
contentFor(document, selector) ==
    LET e == querySelector(document, selector)
    IN  IF e = 0 THEN <<>>
        ELSE IF selectorIsMeta(selector) THEN trim(document[e].attrs["content"])
        ELSE trim(document[e].text)

\* a loop that goes on after a match: the last selector with content wins
RECURSIVE selectorLoop_NoBreak(_, _, _, _)
selectorLoop_NoBreak(document, selectors, k, found) ==
    IF k > Len(selectors) THEN found
    ELSE LET c == contentFor(document, selectors[k])
         IN  selectorLoop_NoBreak(document, selectors, k + 1, IF c # <<>> THEN c ELSE found)

\* the loop `for (const selector of ...) { if (...content...) { x = ...; break } }`
\* from its k-th selector on; `found` is the value the variable starts with
RECURSIVE selectorLoop(_, _, _, _)
selectorLoop(document, selectors, k, found) ==
    IF k > Len(selectors) THEN found
    ELSE LET c == contentFor(document, selectors[k])
         IN  IF c # <<>> THEN c
             ELSE selectorLoop(document, selectors, k + 1, found)

Untitled == <<"Untitled">>
Unknown == <<"Unknown">>

extractTextContent(document) == selectorLoop(document, SELECTORS_text, 1, <<>>)

extractAuthor(document) == selectorLoop(document, SELECTORS_author, 1, Unknown)

extractTitle(document) == selectorLoop(document, SELECTORS_title, 1, Untitled)

\* a || b || c || d over attribute values
RECURSIVE firstTruthy(_)
firstTruthy(values) ==
    IF values = <<>> THEN <<>>
    ELSE IF Head(values) # <<>> THEN Head(values) ELSE firstTruthy(Tail(values))

\* the attributes read in the order src, data-src, data-original, data-url
imgSrcOf_SrcFirst(img) ==
    firstTruthy(<<img.attrs["src"], img.attrs["data-src"],
                  img.attrs["data-original"], img.attrs["data-url"]>>)

\* addImageToArray lines 157-160
imgSrcOf(img) ==
    firstTruthy(<<img.attrs["data-src"], img.attrs["src"],
                  img.attrs["data-original"], img.attrs["data-url"]>>)

\* addImageToArray without the test for an entry already in the list
addImageToArray_NoDedupe(img, images) ==
    LET imgSrc == imgSrcOf(img)
    IN  IF /\ imgSrc # <<>>
           /\ includes(imgSrc, <<"http">>)
           /\ ~includes(imgSrc, <<"avatar">>)
           /\ ~includes(imgSrc, <<"picasso">>)
        THEN Append(images, imgSrc)
        ELSE images

\* addImageToArray: the array after the call
addImageToArray(img, images) ==
    LET imgSrc == imgSrcOf(img)
    IN  IF /\ imgSrc # <<>>
           /\ includes(imgSrc, <<"http">>)
           /\ ~includes(imgSrc, <<"avatar">>)
           /\ ~includes(imgSrc, <<"picasso">>)
           /\ ~arrayIncludes(images, imgSrc)
        THEN Append(images, imgSrc)
        ELSE images

\* elements.forEach(img => addImageToArray(img, images))
RECURSIVE addAllImages(_, _, _)
addAllImages(document, positions, images) ==
    IF positions = <<>> THEN images
    ELSE addAllImages(document, Tail(positions),
                      addImageToArray(document[Head(positions)], images))

\* extractImages, the loop over SELECTORS.images from its k-th selector
RECURSIVE imagesBySelectors(_, _)
imagesBySelectors(document, k) ==
    IF k > Len(SELECTORS_images) THEN <<>>
    ELSE LET images == addAllImages(document,
                           querySelectorAll(document, SELECTORS_images[k]), <<>>)
         IN  IF images # <<>> THEN images ELSE imagesBySelectors(document, k + 1)

\* extractImages
extractImages(document) ==
    LET images == imagesBySelectors(document, 1)
    IN  IF images = <<>>
        THEN addAllImages(document, querySelectorAll(document, "img"), <<>>)
        ELSE images

\* extractVideos lines 186-193: one element of a video selector
addVideoToArray(video, videos) ==
    LET videoSrc == firstTruthy(<<video.attrs["src"], video.attrs["data-src"],
                                  video.attrs["data-url"], video.attrs["data-video"]>>)
    IN  IF videoSrc # <<>> /\ includes(videoSrc, <<"http">>)
           /\ ~arrayIncludes(videos, videoSrc)
        THEN Append(videos, videoSrc)
        ELSE videos

RECURSIVE addAllVideos(_, _, _)
addAllVideos(document, positions, videos) ==
    IF positions = <<>> THEN videos
    ELSE addAllVideos(document, Tail(positions),
                      addVideoToArray(document[Head(positions)], videos))

\* extractVideos, the loop over SELECTORS.videos from its k-th selector
RECURSIVE videosBySelectors(_, _)
videosBySelectors(document, k) ==
    IF k > Len(SELECTORS_videos) THEN <<>>
    ELSE LET videos == addAllVideos(document,
                           querySelectorAll(document, SELECTORS_videos[k]), <<>>)
         IN  IF videos # <<>> THEN videos ELSE videosBySelectors(document, k + 1)

\* extractVideos lines 201-204: the og:video meta tag
addMetaVideo(document, videos) ==
    LET e == querySelector(document, "meta[og:video]")
        metaVideoUrl == IF e = 0 THEN <<>> ELSE document[e].attrs["content"]
    IN  IF metaVideoUrl # <<>> /\ includes(metaVideoUrl, <<"http">>)
           /\ ~arrayIncludes(videos, metaVideoUrl)
        THEN Append(videos, metaVideoUrl)
        ELSE videos

\* the matches of the video-URL pattern in one run of characters free of
\* quotes and whitespace: from the first "http" (the scheme with "://") on,
\* if an extension follows at least one further character
VideoExtensions == {".mp4", ".mov", ".avi", ".flv", ".wmv"}

matchInRun(run) ==
    LET k == indexOf(run, <<"http">>)
        tail == substring(run, k)
    IN  IF k # 0 /\ \E j \in 3..Len(tail) : tail[j] \in VideoExtensions
        THEN <<tail>> ELSE <<>>

\* content.match(/https?:\/\/[^"'\s]+\.(?:mp4|...)[^"'\s]*/gi), as the
\* sequence of matches; "Q" and "'" and whitespace end a run
RECURSIVE videoUrlMatches(_)
videoUrlMatches(content) ==
    LET stops == {i \in 1..Len(content) : content[i] \in Whitespace \cup {"Q", "'"}}
    IN  IF stops = {} THEN matchInRun(content)
        ELSE LET i == CHOOSE x \in stops : \A y \in stops : x <= y
             IN  matchInRun(SubSeq(content, 1, i - 1))
                     \o videoUrlMatches(substring(content, i + 1))

RECURSIVE pushNew(_, _)
pushNew(urls, videos) ==
    IF urls = <<>> THEN videos
    ELSE pushNew(Tail(urls), IF arrayIncludes(videos, Head(urls)) THEN videos
                             ELSE Append(videos, Head(urls)))

\* extractVideosFromScripts, for the scripts at `positions`
RECURSIVE extractVideosFromScripts(_, _, _)
extractVideosFromScripts(document, positions, videos) ==
    IF positions = <<>> THEN videos
    ELSE LET content == document[Head(positions)].text
             scanned == IF /\ includes(content, <<"video">>)
                           /\ includes(content, <<"{">>) \/ includes(content, <<"[">>)
                        THEN pushNew(videoUrlMatches(content), videos)
                        ELSE videos
         IN  extractVideosFromScripts(document, Tail(positions), scanned)

\* extractVideos
extractVideos(document) ==
    extractVideosFromScripts(document, querySelectorAll(document, "script:not([src])"),
                             addMetaVideo(document, videosBySelectors(document, 1)))

\* findFallbackContent: every path returns ''
findFallbackContent(document, htmlBody) == <<>>

SELECTORS_date == <<".publish-time-container", "time", "meta[article:published_time]">>

Digits == {"0", "1", "2", "3", "4", "5", "6", "7", "8", "9"}

\* the clock of the process: new Date().getFullYear() and
\* new Date().toISOString().split('T')[0]
CurrentYear == <<"2", "0", "2", "6">>
Today == CurrentYear \o <<"-", "1", "1", "-", "0", "1">>

\* /(\d{2})-(\d{2})/ matches at position i
compactDateAt(dateStr, i) ==
    /\ i + 4 <= Len(dateStr)
    /\ dateStr[i] \in Digits /\ dateStr[i + 1] \in Digits
    /\ dateStr[i + 2] = "-"
    /\ dateStr[i + 3] \in Digits /\ dateStr[i + 4] \in Digits

\* dateStr.match(/(\d{2})-(\d{2})/): the position of the leftmost match, 0
\* for null
compactDateMatch(dateStr) ==
    LET hits == {i \in 1..Len(dateStr) : compactDateAt(dateStr, i)}
    IN  IF hits = {} THEN 0 ELSE CHOOSE i \in hits : \A j \in hits : i <= j

AllDigits(str) == \A i \in 1..Len(str) : str[i] \in Digits

\* new Date(dateStr) followed by toISOString().split('T')[0], for the forms
\* YYYY-MM-DD and YYYY/MM/DD (the process runs in UTC); <<>> for a string
\* that gives an invalid date
genericDate(dateStr) ==
    IF /\ Len(dateStr) = 10
       /\ dateStr[5] \in {"-", "/"} /\ dateStr[8] = dateStr[5]
       /\ AllDigits(SubSeq(dateStr, 1, 4))
       /\ AllDigits(SubSeq(dateStr, 6, 7))
       /\ AllDigits(SubSeq(dateStr, 9, 10))
    THEN SubSeq(dateStr, 1, 4) \o <<"-">> \o SubSeq(dateStr, 6, 7)
             \o <<"-">> \o SubSeq(dateStr, 9, 10)
    ELSE <<>>

\* parseDate: <<>> for null
parseDate(dateStr) ==
    LET m == compactDateMatch(dateStr)
    IN  IF m # 0
        THEN CurrentYear \o <<"-">> \o SubSeq(dateStr, m, m + 1)
                 \o <<"-">> \o SubSeq(dateStr, m + 3, m + 4)
        ELSE genericDate(dateStr)

\* what extractDate reads from the element of a date selector
dateRawFor(document, selector) ==
    LET e == querySelector(document, selector)
    IN  IF selectorIsMeta(selector) THEN document[e].attrs["content"]
        ELSE firstTruthy(<<document[e].attrs["datetime"], document[e].text>>)

\* extractDate lines 278-292: createdAtRaw after the loop, from the k-th
\* selector on
RECURSIVE dateLoop(_, _, _)
dateLoop(document, k, createdAtRaw) ==
    IF k > Len(SELECTORS_date) THEN createdAtRaw
    ELSE IF querySelector(document, SELECTORS_date[k]) = 0
         THEN dateLoop(document, k + 1, createdAtRaw)
         ELSE LET raw == dateRawFor(document, SELECTORS_date[k])
              IN  IF raw # <<>> /\ trim(raw) # <<>> THEN raw
                  ELSE dateLoop(document, k + 1, raw)

\* extractDate lines 300-303
dateOrToday(createdAt) == IF createdAt = <<>> THEN Today ELSE createdAt

\* extractDate
extractDate(document) ==
    LET createdAtRaw == dateLoop(document, 1, <<>>)
    IN  dateOrToday(IF createdAtRaw # <<>> THEN parseDate(createdAtRaw) ELSE <<>>)

\* the text createPostData puts in a post without content
NoContentMessage(url) ==
    <<"No", " ", "content", " ", "could", " ", "be", " ", "extracted", " ",
      "from", " ", "this", " ", "RedNote", " ", "post.", " ",
      "The", " ", "URL", " ", "was:", " ">> \o url

\* createPostData without its note for a post that has no content
createPostData_NoNote(text, images, videos, author, createdAt, title, url) ==
    [text |-> text, images |-> images, videos |-> videos,
     author |-> IF author = <<>> THEN Unknown ELSE author,
     createdAt |-> createdAt,
     title |-> IF title = <<>> THEN Untitled ELSE title]

\* rednote-fetcher.js createPostData
createPostData(text, images, videos, author, createdAt, title, url) ==
    [text |-> IF text = <<>> /\ images = <<>> /\ videos = <<>>
              THEN NoContentMessage(url) ELSE text,
     images |-> images, videos |-> videos,
     author |-> IF author = <<>> THEN Unknown ELSE author,
     createdAt |-> createdAt,
     title |-> IF title = <<>> THEN Untitled ELSE title]

\* fetchRedNoteContent after the page has arrived (lines 40-59)
fetchRedNoteContent(document, redNoteUrl) ==
    LET textContent == extractTextContent(document)
        fallbackContent == findFallbackContent(document, document)
    IN  createPostData(IF textContent # <<>> THEN textContent ELSE fallbackContent,
                       extractImages(document), extractVideos(document),
                       extractAuthor(document), extractDate(document),
                       extractTitle(document), redNoteUrl)

\* text.replace(/\s+/g, ' '): every run of whitespace becomes one space
RECURSIVE collapseWhitespace(_)
collapseWhitespace(text) ==
    IF text = <<>> THEN <<>>
    ELSE IF Head(text) \in Whitespace
    THEN <<" ">> \o collapseWhitespace(trimStart(text))
    ELSE <<Head(text)>> \o collapseWhitespace(Tail(text))

\* text-processor.js cleanRedNoteText
cleanRedNoteText(text) == trim(collapseWhitespace(text))

\* rednote-parser.js parseRedNoteData
parseRedNoteData(redNoteRawData) ==
    [text |-> cleanRedNoteText(redNoteRawData.text),
     images |-> redNoteRawData.images,
     videos |-> redNoteRawData.videos,
     createdAt |-> redNoteRawData.createdAt,
     author |-> redNoteRawData.author,
     title |-> redNoteRawData.title]

FailedToFetch == <<"Failed to Fetch Content">>

\* rednote-fetcher.js createFallbackRedNoteData
createFallbackRedNoteData(error, mailBody) ==
    [text |-> <<"Failed to fetch RedNote content: ", error, "\n", "\n",
                "Original email content:", "\n">> \o mailBody,
     images |-> <<>>,
     videos |-> <<>>,
     createdAt |-> <<"YYYY-MM-DD">>,
     author |-> Unknown,
     title |-> FailedToFetch]

-----------------------------------------------------------------------------
(* rednote-saver.js: processRedNotePost.  It shares the media batches, the *)
(* rendering and the save with processWeiboPost.                           *)

RedNoteUrls == {<<"xhslink", "/", "a">>, <<"xhslink", "/", "b", "/", "c">>}

RedNoteMailBody == <<"x", " ", "xhslink", "/", "a">>

ImgA == <<"http", "i", "1">>
ImgB == <<"http", "i", "2">>
VidA == <<"http", "v", ".mp4">>

\* the pages a share URL can lead to
EmptyPage == <<>>
BlankTextPage == <<TextElement({".content-container"}, <<" ", "\n">>)>>
TextPage == <<TextElement({".content-container"}, <<" ", "t", " ", "\n", "u", "\n">>)>>
AvatarPage == <<AttrElement({"img"}, "src", <<"http", "avatar">>),
                AttrElement({".note-slider-img", "img"}, "src", <<"i", "1">>)>>
ImagePage == <<AttrElement({".note-slider-img", "img"}, "src", ImgA),
               AttrElement({".note-slider-img", "img"}, "data-src", ImgB)>>
VideoPage == <<AttrElement({"video"}, "src", VidA)>>
ScriptPage ==
    <<TextElement({"script:not([src])"},
                  <<"{", "video", ":", "Q", "http", "v", ".mp4", "Q", "}">>)>>
MetaVideoPage == <<AttrElement({"meta[og:video]"}, "content", VidA)>>
FullPage == TextPage \o ImagePage \o VideoPage

RedNotePages ==
    { EmptyPage, BlankTextPage, TextPage, AvatarPage, ImagePage, VideoPage,
      ScriptPage, MetaVideoPage, FullPage }

RedNoteOutcomes == {"network_error", "bad_status", "data"}

PagesFor(outcome) == IF outcome = "data" THEN RedNotePages ELSE {EmptyPage}

\* processRedNotePost up to the await of fetchRedNoteContent (lines 21-33)
RedNoteStart(url, dirOk) ==
    /\ entry = "rednote"
    /\ pc = "idle"
    /\ emailData' = <<[redNoteUrl |-> url, mailBody |-> RedNoteMailBody]>>
    /\ invoked' = TRUE
    /\ IF dirOk
       THEN /\ fetches' = fetches + 1
            /\ fetchResult' = "pending"
            /\ pc' = "fetching"
            /\ UNCHANGED <<result, failedStage>>
       ELSE /\ Abort("dir")
            /\ UNCHANGED <<fetches, fetchResult>>
    /\ UNCHANGED <<body, urlResult, legacyResult, upc, fnVars, redNote, auxVars, finishOrder, entry,
                   mailNo, prevFailed, mail, parsed, weiboData, imgs, vids,
                   imgJoined, vidJoined, downloadedImages, downloadedVideos,
                   failedLog, saved>>

\* the page request settles (lines 33-54): fetchRedNoteContent extracts and
\* returns, or throws into the inner catch; the post is built and the first
\* media batch is dispatched.  generateRedNoteFileTitle (line 41) catches
\* its own errors and only shapes the filename.
RedNoteFetchSettle(outcome, document) ==
    /\ entry = "rednote"
    /\ pc = "fetching"
    /\ fetchResult' = outcome
    /\ LET redNoteRawData == fetchRedNoteContent(document, Val(emailData).redNoteUrl)
           redNoteData ==
               IF outcome = "data" THEN parseRedNoteData(redNoteRawData)
               ELSE createFallbackRedNoteData(outcome, Val(emailData).mailBody)
       IN  /\ redNote' = IF outcome = "data"
                         THEN <<[document |-> document, rawData |-> redNoteRawData]>>
                         ELSE <<>>
           /\ parsed' = IF outcome = "data" THEN "ok" ELSE "none"
           /\ weiboData' = <<redNoteData>>
           /\ StartMedia(redNoteData)
    /\ UNCHANGED <<body, urlResult, legacyResult, upc, fnVars, auxVars, finishOrder, entry,
                   mailNo, prevFailed, mail, emailData, invoked, fetches,
                   imgJoined, vidJoined, downloadedImages, downloadedVideos,
                   failedLog, saved, result, failedStage>>

InitRedNote ==
    /\ body = <<>>
    /\ urlResult = <<>>
    /\ legacyResult = <<>>
    /\ upc = "unused"
    /\ IdleFn
    /\ entry = "rednote"
    /\ mailNo = 0
    /\ prevFailed = FALSE
    /\ IdleRun

NextRedNote ==
    \/ \E url \in RedNoteUrls, dirOk \in BOOLEAN : RedNoteStart(url, dirOk)
    \/ \E outcome \in RedNoteOutcomes : \E document \in PagesFor(outcome) :
            RedNoteFetchSettle(outcome, document)
    \/ \E kind \in MediaKinds, i \in 1..(MaxPics + MaxVids) : ItemResponseOk(kind, i)
    \/ \E kind \in MediaKinds, i \in 1..(MaxPics + MaxVids) : ItemResponseBad(kind, i)
    \/ \E kind \in MediaKinds, i \in 1..(MaxPics + MaxVids) : ItemError(kind, i)
    \/ \E kind \in MediaKinds, i \in 1..(MaxPics + MaxVids) : ItemFinish(kind, i)
    \/ ImagesJoin
    \/ VideosJoin
    \/ \E ok \in BOOLEAN : RenderSettle(ok)
    \/ \E ok \in BOOLEAN : SaveSettle(ok)

SpecRedNote == InitRedNote /\ [][NextRedNote]_vars

-----------------------------------------------------------------------------
(* The two parseWeiboData: weibo-parser.js (used by processWeiboPost) and  *)
(* fetchWeibo.js (its latest version, with the videos).  A field that is   *)
(* absent is <<>>; HTML tags, the video-CDN prefix and the marker          *)
(* 查看图片 ("viewPicture") are tokens.                                    *)

CdnPrefix == <<"https://f.video.weibocdn.com/">>

\* text-processor.js cleanWeiboText: span and anchor tags are removed
cleanWeiboText(text) == without(text, {"<span>", "</span>", "<a>", "</a>"})

\* turndownService.turndown: HTML to Markdown
turndown(html) ==
    [i \in 1..Len(html) |->
        IF html[i] \in {"<b>", "</b>"} THEN "**"
        ELSE IF html[i] = "<br>" THEN "\n" ELSE html[i]]

\* new Date(x).toISOString() of a valid date whose milliseconds are ms
toISOString(ms) ==
    <<"Y", "Y", "Y", "Y", "-", "M", "M", "-", "D", "D", "T",
      "h", "h", ":", "m", "m", ":", "s", "s", ".">> \o ms \o <<"Z">>

\* str.replace(/T/, ' '): the first T becomes a space
replaceT(str) ==
    LET k == indexOf(str, <<"T">>)
    IN  IF k = 0 THEN str ELSE [str EXCEPT ![k] = " "]

\* str.replace(/\..+/, ''): from the first dot that is followed by a
\* character, everything up to the end is removed
replaceDotAndRest(str) ==
    LET hits == {i \in 1..(Len(str) - 1) : str[i] = "."}
    IN  IF hits = {} THEN str
        ELSE SubSeq(str, 1, (CHOOSE i \in hits : \A j \in hits : i <= j) - 1)

\* str.replace(/\.+/, ''): the first run of dots is removed, nothing else
RECURSIVE dotRunEnd(_, _)
dotRunEnd(str, i) ==
    IF i < Len(str) /\ str[i + 1] = "." THEN dotRunEnd(str, i + 1) ELSE i

replaceDots(str) ==
    LET k == indexOf(str, <<".">>)
    IN  IF k = 0 THEN str
        ELSE SubSeq(str, 1, k - 1) \o substring(str, dotRunEnd(str, k) + 1)

\* weibo-parser.js line 84 and weibo-fetcher.js line 54
normalizedTimestamp(ms) == replaceDots(replaceT(toISOString(ms)))

\* fetchWeibo.js lines 176-179
legacyTimestamp(ms) == replaceDotAndRest(replaceT(toISOString(ms)))

InvalidDate == <<"NaN">>

\* a || b for strings
or(a, b) == IF a # <<>> THEN a ELSE b

\* x.longText?.longTextContent
longTextContentOf(st) == IF st.longText = <<>> THEN <<>> ELSE Val(st.longText).longTextContent

\* pic.large?.url || pic.url
imageUrlOf(pic) == or(pic.large, pic.url)

\* pics.map(f).filter(Boolean)
mapFilter(items, f(_)) ==
    SelectSeq([i \in 1..Len(items) |-> f(items[i])], LAMBDA x : x # <<>>)

\* weibo-parser.js lines 42-48 and 68-74: the video URL of a page_info
parserVideoOf(page_info) ==
    IF page_info = <<>> \/ Val(page_info).type # "video" THEN <<>>
    ELSE LET pi == Val(page_info)
             videoUrl == or(or(pi.stream_url, pi.h5_url), pi.page_url)
         IN  IF videoUrl # <<>> THEN <<videoUrl>> ELSE <<>>

\* the text of a status as weibo-parser.js reads it (lines 32, 58)
parserTextOf(st) == or(st.text, longTextContentOf(st))

\* weibo-parser.js parseWeiboData, for a raw object that has a status
weiboParserParse(rawData) ==
    LET status == rawData.status
        rt == status.retweeted_status
        isRetweet == rt # <<>>
    IN  IF status.created_at = InvalidDate THEN Thrown
        ELSE
        [outerTextMD |-> turndown(cleanWeiboText(parserTextOf(status))),
         outerUser |-> or(status.user, Unknown),
         largeImgs |-> mapFilter(status.pics, imageUrlOf)
                           \o (IF isRetweet THEN mapFilter(Val(rt).pics, imageUrlOf)
                               ELSE <<>>),
         createdAt |-> normalizedTimestamp(status.created_at),
         videoPageUrls |-> parserVideoOf(status.page_info)
                               \o (IF isRetweet THEN parserVideoOf(Val(rt).page_info)
                                   ELSE <<>>),
         originTextMD |-> IF isRetweet
                          THEN turndown(cleanWeiboText(parserTextOf(Val(rt))))
                          ELSE <<>>,
         originUser |-> IF isRetweet
                           /\ turndown(cleanWeiboText(parserTextOf(Val(rt)))) # <<>>
                        THEN or(Val(rt).user, Unknown) ELSE <<>>]

\* fetchWeibo.js lines 189-195: the text of the retweeted status
legacyOriginText(rt) ==
    IF rt.isLongText /\ rt.longText # <<>> THEN longTextContentOf(rt) ELSE rt.text

\* fetchWeibo.js lines 233-242: the picture of an item without videoSrc
legacyImageOf(pic) == IF pic.videoSrc = <<>> THEN imageUrlOf(pic) ELSE <<>>

legacyVideoSrcOf(pic) == pic.videoSrc

\* fetchWeibo.js lines 246-258: the sinaurl links of an outer text that
\* holds the marker
legacySinaLinks(outerText) ==
    IF includes(outerText, <<"viewPicture">>)
    THEN mapFilter(outerText, LAMBDA c : IF c = "sinaurl" THEN <<c>> ELSE <<>>)
    ELSE <<>>

\* fetchWeibo.js lines 276-282: media_info.stream_url of a page_info, as
\* pushed; <<"undefined">> when media_info has no stream_url
legacyStreamOf(page_info) ==
    IF page_info = <<>> \/ ~Val(page_info).media_info THEN <<>>
    ELSE IF Val(page_info).stream_url = <<>> THEN <<<<"undefined">>>>
    ELSE <<Val(page_info).stream_url>>

\* fetchWeibo.js parseWeiboData
fetchWeiboParse(allData) ==
    LET status == allData.status
        rt == status.retweeted_status
        isRetweet == rt # <<>>
        allPics == IF isRetweet THEN Val(rt).pics ELSE status.pics
        fromPics == mapFilter(allPics, legacyVideoSrcOf)
        mixContentUrls ==
            IF fromPics # <<>> THEN fromPics
            ELSE legacyStreamOf(status.page_info)
                     \o (IF isRetweet THEN legacyStreamOf(Val(rt).page_info) ELSE <<>>)
    IN  IF status.created_at = InvalidDate THEN Thrown
        ELSE IF arrayIncludes(mixContentUrls, <<"undefined">>) THEN Thrown
        ELSE
        [originTextMD |-> IF isRetweet THEN turndown(legacyOriginText(Val(rt))) ELSE <<>>,
         originUser |-> IF isRetweet THEN or(Val(rt).user, <<"unknown">>) ELSE <<>>,
         outerTextMD |-> turndown(status.text),
         outerUser |-> or(status.user, <<"unknown">>),
         largeImgs |-> mapFilter(allPics, legacyImageOf) \o legacySinaLinks(status.text),
         createdAt |-> legacyTimestamp(status.created_at),
         videoPageUrls |-> SelectSeq(mixContentUrls, LAMBDA e : startsWith(e, CdnPrefix))]

\* the picture items of a status
MaxStatusPics == 2

PicPlain == [url |-> <<"p1">>, large |-> <<>>, videoSrc |-> <<>>]
PicLarge == [url |-> <<"p2s">>, large |-> <<"p2l">>, videoSrc |-> <<>>]
PicLive == [url |-> <<"p3">>, large |-> <<>>, videoSrc |-> CdnPrefix \o <<"v3">>]
PicShortVideo == [url |-> <<>>, large |-> <<>>, videoSrc |-> <<"http://t.cn/", "v4">>]

PicItems == {PicPlain, PicLarge, PicLive, PicShortVideo}

PageInfo(type, media_info, stream_url, h5_url) ==
    <<[type |-> type, media_info |-> media_info, stream_url |-> stream_url,
       h5_url |-> h5_url, page_url |-> <<"https://weibo.com/", "page">>]>>

PageInfoH5Only == PageInfo("video", TRUE, <<>>, <<"https://m.weibo.cn/", "h5">>)

PageInfos ==
    { <<>>,
      PageInfo("video", TRUE, CdnPrefix \o <<"s">>, <<"https://m.weibo.cn/", "h5">>),
      PageInfoH5Only,
      PageInfo("video", FALSE, <<>>, <<>>),
      PageInfo("article", TRUE, CdnPrefix \o <<"a">>, <<>>),
      PageInfo("video", TRUE, <<"http://t.cn/", "s">>, <<>>) }

TruncatedText == <<"s", "<a>", "more", "</a>">>
FullText == <<"s", "<b>", "l", "</b>">>

Retweets ==
    {<<>>} \cup
    { <<[text |-> text, isLongText |-> isLongText, longText |-> longText,
         pics |-> pics, page_info |-> page_info, user |-> <<"r">>]>> :
        text \in {<<>>, TruncatedText},
        isLongText \in BOOLEAN,
        longText \in {<<>>, <<[longTextContent |-> FullText]>>},
        pics \in {<<>>, <<PicLive>>},
        page_info \in {<<>>, PageInfoH5Only} }

Millis == {<<"0", "0", "0">>, <<"1", "2", "3">>}

Statuses ==
    [text : {<<"o", "<b>">>, <<"o", "viewPicture", "sinaurl">>},
     longText : {<<>>},
     user : {<<"u">>},
     pics : SeqsUpTo(PicItems, MaxStatusPics),
     page_info : PageInfos,
     retweeted_status : Retweets,
     created_at : Millis \cup {InvalidDate}]

ParseInputs == [fn : {"parse"}, allData : [status : Statuses]]

\* both parsers on the same raw object
ApplyParse ==
    /\ fpc = "start"
    /\ fin.fn = "parse"
    /\ fout' = [fn |-> "parse",
                parser |-> weiboParserParse(fin.allData),
                legacy |-> fetchWeiboParse(fin.allData)]
    /\ fpc' = "done"
    /\ UNCHANGED <<fin, body, urlResult, legacyResult, upc, redNote, auxVars, pipeVars>>

\* createFallbackWeiboData, createdAt (weibo-fetcher.js line 54)
fallbackCreatedAt(now) == normalizedTimestamp(now)

FallbackDateInputs == [fn : {"fallbackDate"}, now : Millis]

ApplyFallbackDate ==
    /\ fpc = "start"
    /\ fin.fn = "fallbackDate"
    /\ fout' = [fn |-> "fallbackDate", createdAt |-> fallbackCreatedAt(fin.now)]
    /\ fpc' = "done"
    /\ UNCHANGED <<fin, body, urlResult, legacyResult, upc, redNote, auxVars, pipeVars>>

\* the elements a page is made of for the field extractors
MaxElements == 2

FieldSelectors ==
    Range(SELECTORS_text) \cup Range(SELECTORS_author) \cup Range(SELECTORS_title)

\* an element matched by the selectors `sels` whose content (textContent,
\* or the content attribute of a meta element) is `content`
FieldElement(sels, content) ==
    IF \E sel \in sels : selectorIsMeta(sel)
    THEN AttrElement(sels, "content", content)
    ELSE TextElement(sels, content)

\* the content names the selector it sits under, padded with whitespace
PaddedContent(sel) == <<" ", sel, "\n">>

BlankContent == <<" ", "\n">>

FieldElements ==
    UNION { { FieldElement({sel}, c) : c \in {PaddedContent(sel), BlankContent, <<>>} } :
                sel \in FieldSelectors }
        \cup { FieldElement({".title", ".note-card-title"}, <<"both">>) }

ExtractInputs == [fn : {"extract"}, document : SeqsUpTo(FieldElements, MaxElements)]

\* the three field extractors on one document
ApplyExtract ==
    /\ fpc = "start"
    /\ fin.fn = "extract"
    /\ fout' = [fn |-> "extract",
                text |-> extractTextContent(fin.document),
                author |-> extractAuthor(fin.document),
                title |-> extractTitle(fin.document)]
    /\ fpc' = "done"
    /\ UNCHANGED <<fin, body, urlResult, legacyResult, upc, redNote, auxVars, pipeVars>>

\* the image elements of a page
MaxImages == 2

ImgAvatar == <<"http", "avatar", "1">>
ImgPicasso == <<"http", "picasso", "1">>
ImgRelative == <<"/", "i", "3">>

ImageElement(sels, src, dataSrc, dataOriginal, dataUrl) ==
    [sels |-> sels, text |-> <<>>,
     attrs |-> [NoAttrs EXCEPT !["src"] = src, !["data-src"] = dataSrc,
                               !["data-original"] = dataOriginal,
                               !["data-url"] = dataUrl]]

ImageElements ==
    { ImageElement({"img"}, src, dataSrc, dataOriginal, dataUrl) :
        src \in {<<>>, ImgA, ImgAvatar},
        dataSrc \in {<<>>, ImgB},
        dataOriginal \in {<<>>, ImgA},
        dataUrl \in {<<>>, ImgPicasso, ImgRelative} }
    \cup
    { ImageElement({".note-slider-img", "img"}, src, dataSrc, <<>>, <<>>) :
        src \in {<<>>, ImgA}, dataSrc \in {<<>>, ImgB, ImgAvatar} }

ImageInputs == [fn : {"images"}, document : SeqsUpTo(ImageElements, MaxImages)]

\* extractImages on one document
ApplyImages ==
    /\ fpc = "start"
    /\ fin.fn = "images"
    /\ fout' = [fn |-> "images", images |-> extractImages(fin.document)]
    /\ fpc' = "done"
    /\ UNCHANGED <<fin, body, urlResult, legacyResult, upc, redNote, auxVars, pipeVars>>

\* the video elements, meta tags and inline scripts of a page
MaxVideoElements == 3

VidB == <<"http", "w", ".mp4">>

ScriptElement(content) == TextElement({"script:not([src])"}, content)

ScriptWith(url) == ScriptElement(<<"{", "video", ":", "Q">> \o url \o <<"Q", "}">>)

VideoElements ==
    { AttrElement({"video"}, "src", VidA),
      AttrElement({"video"}, "src", <<"/", "v", ".mp4">>),
      AttrElement({".media-video"}, "data-video", VidB),
      AttrElement({"meta[og:video]"}, "content", VidA),
      ScriptWith(VidA),
      ScriptWith(VidB),
      ScriptElement(<<"{", "Q">> \o VidB \o <<"Q", "}">>),
      ScriptElement(<<"video", " ">> \o VidB) }

VideoInputs == [fn : {"videos"}, document : SeqsUpTo(VideoElements, MaxVideoElements)]

\* extractVideos on one document
ApplyVideos ==
    /\ fpc = "start"
    /\ fin.fn = "videos"
    /\ fout' = [fn |-> "videos",
                bySelectors |-> videosBySelectors(fin.document, 1),
                videos |-> extractVideos(fin.document)]
    /\ fpc' = "done"
    /\ UNCHANGED <<fin, body, urlResult, legacyResult, upc, redNote, auxVars, pipeVars>>

\* the date elements of a page
MaxDateElements == 2

CompactDate == <<"0", "5", "-", "0", "6", " ", "c">>
IsoDate == <<"2", "0", "2", "3", "-", "0", "5", "-", "0", "6">>
SlashDate == <<"2", "0", "2", "3", "/", "0", "5", "/", "0", "6">>
WordDate == <<"y">>

DateElements ==
    { TextElement({".publish-time-container"}, raw) :
        raw \in {CompactDate, WordDate, BlankContent, <<>>} }
    \cup { AttrElement({"time"}, "datetime", IsoDate),
           TextElement({"time"}, SlashDate),
           TextElement({"time"}, CompactDate),
           AttrElement({"meta[article:published_time]"}, "content", IsoDate),
           AttrElement({"meta[article:published_time]"}, "content", <<>>) }

DateInputs == [fn : {"date"}, document : SeqsUpTo(DateElements, MaxDateElements)]

\* extractDate on one document
ApplyDate ==
    /\ fpc = "start"
    /\ fin.fn = "date"
    /\ fout' = [fn |-> "date", createdAt |-> extractDate(fin.document)]
    /\ fpc' = "done"
    /\ UNCHANGED <<fin, body, urlResult, legacyResult, upc, redNote, auxVars, pipeVars>>

\* the titles createFilenameFromTitle is applied to: up to MaxTitleParts
\* pieces put together
MaxTitleParts == 4

TitleParts ==
    { <<"a">>, <<" ">>, <<"(">>, <<"h", "t", "t", "p", "s">>, <<"!">>, <<"[", "[">>,
      <<"#">>, <<":">> }

RECURSIVE Titles(_)
Titles(n) ==
    IF n = 0 THEN {<<>>}
    ELSE LET shorter == Titles(n - 1)
         IN  shorter \cup {t \o part : t \in shorter, part \in TitleParts}

FilenameInputs == [fn : {"filename"}, text : Titles(MaxTitleParts)]

\* createFilenameFromTitle, and createFilenameFromTitle on its own result
ApplyFilename ==
    /\ fpc = "start"
    /\ fin.fn = "filename"
    /\ fout' = [fn |-> "filename",
                once |-> createFilenameFromTitle(fin.text),
                twice |-> createFilenameFromTitle(createFilenameFromTitle(fin.text))]
    /\ fpc' = "done"
    /\ UNCHANGED <<fin, body, urlResult, legacyResult, upc, redNote, auxVars, pipeVars>>

\* (function checks: initial states and steps)
FnInputs == TitleInputs \cup ParseInputs \cup FallbackDateInputs \cup ExtractInputs
        \cup ImageInputs \cup VideoInputs \cup DateInputs
        \cup FilenameInputs

InitFn ==
    /\ redNote = <<>>
    /\ IdleAux
    /\ fin \in FnInputs
    /\ fout = [fn |-> "none"]
    /\ fpc = "start"
    /\ body = <<>>
    /\ urlResult = <<>>
    /\ legacyResult = <<>>
    /\ upc = "unused"
    /\ entry = "app"
    /\ mailNo = 0
    /\ prevFailed = FALSE
    /\ IdleRun

NextFn ==
    \/ ApplyTitle
    \/ ApplyParse
    \/ ApplyFallbackDate
    \/ ApplyExtract
    \/ ApplyImages
    \/ ApplyVideos
    \/ ApplyDate
    \/ ApplyFilename

SpecFn == InitFn /\ [][NextFn]_vars

(***************************************************************************)
(* The save stage of processWeiboPost (app.js lines 64-67) for runs that   *)
(* are in flight together and have generated the same title.  The names   *)
(* of the directory are numbered: 0 is '<title>.md', k is '<title>-k.md'. *)
(* JavaScript runs one handler at a time, so a run goes through            *)
(* generateUniqueFilename and the call of saveToFile without another run   *)
(* taking a step; the write itself is done by the thread pool and can      *)
(* happen at any later moment.                                             *)
(***************************************************************************)
\* names of the files that are in the directory before the runs
MaxOldFiles == 2

Names(dir) == {f[1] : f \in dir}

\* an fs.existsSync that finds nothing
fileExists_Never(dir, name) == FALSE

\* file-manager.js fileExists: fs.existsSync(filePath)
fileExists(dir, name) == name \in Names(dir)

\* fs.writeFile: the file is created, or truncated and rewritten
writeFile(dir, name, content) == {f \in dir : f[1] # name} \cup {<<name, content>>}

\* some run is inside generateUniqueFilename
Probing == \E r \in Runs : saveRun[r].pc = "probing"

\* generateMarkdown has resolved for run r: generateUniqueFilename starts
\* (file-manager.js lines 98-100)
UniqueStart(r) ==
    /\ saveRun[r].pc = "rendered"
    /\ ~Probing
    /\ saveRun' = [saveRun EXCEPT ![r] = [pc |-> "probing", counter |-> 1, candidate |-> 0,
                                  chosen |-> 0]]
    /\ UNCHANGED <<files, imap, page, body, urlResult, legacyResult, upc, fnVars,
                   redNote, pipeVars>>

\* one test of the while condition (lines 102-106); when the name is free
\* the function returns and saveToFile calls fs.writeFile (app.js 65-67)
UniqueProbe(r) ==
    /\ saveRun[r].pc = "probing"
    /\ IF fileExists(files, saveRun[r].candidate)
       THEN saveRun' = [saveRun EXCEPT ![r].candidate = saveRun[r].counter,
                               ![r].counter = saveRun[r].counter + 1]
       ELSE saveRun' = [saveRun EXCEPT ![r].chosen = saveRun[r].candidate,
                               ![r].pc = "writing"]
    /\ UNCHANGED <<files, imap, page, body, urlResult, legacyResult, upc, fnVars,
                   redNote, pipeVars>>

\* the thread pool carries out the write of run r (file-manager.js 69-77)
WriteDone(r) ==
    /\ saveRun[r].pc = "writing"
    /\ files' = writeFile(files, saveRun[r].chosen, r)
    /\ saveRun' = [saveRun EXCEPT ![r].pc = "done"]
    /\ UNCHANGED <<imap, page, body, urlResult, legacyResult, upc, fnVars, redNote,
                   pipeVars>>

InitSave ==
    /\ body = <<>>
    /\ urlResult = <<>>
    /\ legacyResult = <<>>
    /\ upc = "unused"
    /\ redNote = <<>>
    /\ fin = [fn |-> "none"]
    /\ fout = [fn |-> "none"]
    /\ fpc = "unused"
    /\ imap = [started |-> FALSE]
    /\ page = [pc |-> "unused"]
    /\ files \in {{<<n, "old">> : n \in S} : S \in SUBSET (0..MaxOldFiles)}
    /\ saveRun = [r \in Runs |-> [pc |-> "rendered", counter |-> 1, candidate |-> 0,
                              chosen |-> 0]]
    /\ entry = "app"
    /\ mailNo = 0
    /\ prevFailed = FALSE
    /\ IdleRun

NextSave ==
    \/ \E r \in Runs : UniqueStart(r)
    \/ \E r \in Runs : UniqueProbe(r)
    \/ \E r \in Runs : WriteDone(r)

SpecSave == InitSave /\ [][NextSave]_vars

\* generateUniqueFilename is synchronous code: once called it goes on
SpecSaveFair == SpecSave /\ WF_vars(\E r \in Runs : UniqueProbe(r))

(***************************************************************************)
(* MailListener (mail-parser.js lines 149-223) on one IMAP connection.     *)
(* parseUnread issues a SEARCH and, in its callback, a FETCH of the        *)
(* results that marks them seen; the connection serves the commands in     *)
(* the order in which they were issued.                                    *)
(***************************************************************************)
MaxMessages == 2
MaxUpdates == 1

Messages == 1..MaxMessages

Search == [op |-> "search", results |-> {}]
Fetch(results) == [op |-> "fetch", results |-> results]

\* parseUnread lines 187-196: imap.search(searchFilter, callback)
parseUnread(queue) == Append(queue, Search)

\* imapReady lines 153-167: the mailbox is open, fetchUnreadOnStart is set
\* (config.js line 23), the 'mail' and 'update' listeners are registered
ImapReady ==
    /\ imap.started = FALSE
    /\ imap' = [imap EXCEPT !.started = TRUE, !.queue = parseUnread(imap.queue)]
    /\ UNCHANGED <<saveVars, page, body, urlResult, legacyResult, upc, fnVars, redNote,
                   pipeVars>>

\* a message arrives and the server announces it: 'mail' -> imapMail
ImapMail ==
    /\ imap.started
    /\ imap.arrived < MaxMessages
    /\ imap' = [imap EXCEPT !.arrived = imap.arrived + 1,
                            !.unseen = imap.unseen \cup {imap.arrived + 1},
                            !.queue = parseUnread(imap.queue)]
    /\ UNCHANGED <<saveVars, page, body, urlResult, legacyResult, upc, fnVars, redNote,
                   pipeVars>>

\* the server reports changed flags: 'update' -> imapMail
ImapUpdate ==
    /\ imap.started
    /\ imap.updates < MaxUpdates
    /\ imap' = [imap EXCEPT !.updates = imap.updates + 1,
                            !.queue = parseUnread(imap.queue)]
    /\ UNCHANGED <<saveVars, page, body, urlResult, legacyResult, upc, fnVars, redNote,
                   pipeVars>>

\* the SEARCH at the head of the queue is answered: the callback of
\* parseUnread calls fetch(results) when there are results (lines 188-195)
SearchDone ==
    /\ imap.started
    /\ imap.queue # <<>>
    /\ Head(imap.queue).op = "search"
    /\ imap' = [imap EXCEPT !.queue =
                    IF imap.unseen # {}
                    THEN Append(Tail(imap.queue), Fetch(imap.unseen))
                    ELSE Tail(imap.queue)]
    /\ UNCHANGED <<saveVars, page, body, urlResult, legacyResult, upc, fnVars, redNote,
                   pipeVars>>

\* the FETCH at the head of the queue is answered: every message of it is
\* marked seen, parsed and emitted as 'mail' (lines 198-223)
FetchDone ==
    /\ imap.started
    /\ imap.queue # <<>>
    /\ Head(imap.queue).op = "fetch"
    /\ imap' = [imap EXCEPT
                   !.queue = Tail(imap.queue),
                   !.unseen = imap.unseen \ Head(imap.queue).results,
                   !.emitted = [m \in Messages |->
                                   IF m \in Head(imap.queue).results
                                   THEN imap.emitted[m] + 1 ELSE imap.emitted[m]]]
    /\ UNCHANGED <<saveVars, page, body, urlResult, legacyResult, upc, fnVars, redNote,
                   pipeVars>>

InitListen ==
    /\ body = <<>>
    /\ urlResult = <<>>
    /\ legacyResult = <<>>
    /\ upc = "unused"
    /\ redNote = <<>>
    /\ fin = [fn |-> "none"]
    /\ fout = [fn |-> "none"]
    /\ fpc = "unused"
    /\ IdleSave
    /\ page = [pc |-> "unused"]
    /\ \E n \in 0..MaxMessages :
           imap = [started |-> FALSE, arrived |-> n, unseen |-> 1..n, updates |-> 0,
                   queue |-> <<>>, emitted |-> [m \in Messages |-> 0]]
    /\ entry = "app"
    /\ mailNo = 0
    /\ prevFailed = FALSE
    /\ IdleRun

NextListen ==
    \/ ImapReady
    \/ ImapMail
    \/ ImapUpdate
    \/ SearchDone
    \/ FetchDone

SpecListen == InitListen /\ [][NextListen]_vars

(***************************************************************************)
(* fetchWeiboContent (weibo-fetcher.js lines 15-37) and the page it loads. *)
(* new JSDOM(body, {runScripts, resources}) runs the inline scripts while  *)
(* it parses the document and returns; script files and timer callbacks    *)
(* run in later turns of the event loop.                                   *)
(***************************************************************************)
\* how the page comes to set window.$render_data: in an inline script, in
\* a script file it loads, in a timer callback, or not at all
PageKinds == {"inline", "external", "timer", "never"}

AsyncKinds == {"external", "timer"}

\* lines 25-32: the read of pageBody.window.$render_data and its test
readRenderData(window) ==
    IF window = <<>> THEN Thrown ELSE [allData |-> Val(window)]

\* got.get resolves; the JSDOM is built and $render_data is read in the
\* same turn (lines 19-32)
GotResolves ==
    /\ page.pc = "fetching"
    /\ LET window == IF page.kind = "inline" THEN <<page.data>> ELSE <<>>
       IN  page' = [page EXCEPT !.window = window,
                                !.result = <<readRenderData(window)>>,
                                !.pc = IF page.kind \in AsyncKinds THEN "loading"
                                       ELSE "settled"]
    /\ UNCHANGED <<saveVars, imap, body, urlResult, legacyResult, upc, fnVars, redNote,
                   pipeVars>>

\* got.get rejects (network error or a status that is no success): the
\* catch logs and throws on (lines 33-36)
GotRejects ==
    /\ page.pc = "fetching"
    /\ page' = [page EXCEPT !.result = <<Thrown>>, !.pc = "failed"]
    /\ UNCHANGED <<saveVars, imap, body, urlResult, legacyResult, upc, fnVars, redNote,
                   pipeVars>>

\* the script file has loaded, or the timer fires: the page sets
\* window.$render_data
PageScriptRuns ==
    /\ page.pc = "loading"
    /\ page' = [page EXCEPT !.window = <<page.data>>, !.pc = "settled"]
    /\ UNCHANGED <<saveVars, imap, body, urlResult, legacyResult, upc, fnVars, redNote,
                   pipeVars>>

InitPage ==
    /\ body = <<>>
    /\ urlResult = <<>>
    /\ legacyResult = <<>>
    /\ upc = "unused"
    /\ redNote = <<>>
    /\ fin = [fn |-> "none"]
    /\ fout = [fn |-> "none"]
    /\ fpc = "unused"
    /\ IdleSave
    /\ imap = [started |-> FALSE]
    /\ \E kind \in PageKinds, data \in RawDatas :
           page = [pc |-> "fetching", kind |-> kind, data |-> data,
                   window |-> <<>>, result |-> <<>>]
    /\ entry = "app"
    /\ mailNo = 0
    /\ prevFailed = FALSE
    /\ IdleRun

NextPage ==
    \/ GotResolves
    \/ GotRejects
    \/ PageScriptRuns

SpecPage == InitPage /\ [][NextPage]_vars

-----------------------------------------------------------------------------
(* What the locator's contract speaks of, read off the body itself.        *)

\* number of occurrences of the marker phrase
MarkerCount(b) == Len(split(b, preString)) - 1

\* the text after the last occurrence of the marker phrase
AfterLastMarker(b) == substring(b, lastIndexOf(b, preString) + Len(preString))

\* the last segment holds an anchor opener
HasAnchor(seg) == includes(seg, anchorOpen)

\* the href value of the first anchor of seg: what stands between the
\* opener and the closing quote
HrefOf(seg) ==
    LET rest == substring(seg, indexOf(seg, anchorOpen) + Len(anchorOpen))
        q == indexOf(rest, <<"Q">>)
    IN  IF q = 0 THEN rest ELSE SubSeq(rest, 1, q - 1)

\* a valid anchor follows the last marker
ValidAnchorAfterMarker(b) ==
    /\ MarkerCount(b) >= 1
    /\ HasAnchor(AfterLastMarker(b))
    /\ startsWith(HrefOf(AfterLastMarker(b)), weiboUrlPre)

\* the part of a string after its final "/"
AfterFinalSlash(s) == substring(s, lastIndexOf(s, <<"/">>) + 1)

\* C9: a body without the marker phrase, or without a valid anchor after
\* the last marker, is answered with null.
C9_NotFoundWithoutMarkerOrAnchor ==
    (upc = "located" /\ ~ValidAnchorAfterMarker(body)) => urlResult = null

\* C10: with several markers, the link comes from the first anchor after
\* the last marker and is the mobile prefix followed by the part of that
\* href after its final "/".
C10_LinkFromLastMarker ==
    (upc = "located" /\ MarkerCount(body) >= 2 /\ ValidAnchorAfterMarker(body))
        => urlResult = mWeiboPre \o AfterFinalSlash(HrefOf(AfterLastMarker(body)))

-----------------------------------------------------------------------------
(* Properties of the handler and of processWeiboPost.                      *)

InFlight == {"pending", "streaming"}

StorageStages == {"dir", "render", "save"}

FetchOrParseFailed ==
    fetchResult \in {"network_error", "bad_status", "no_data"} \/ parsed = "threw"

AnyItem(items, S) == \E i \in 1..Len(items) : items[i] \in S

\* C1: a run of processWeiboPost for a located URL that has ended, whatever
\* page-fetch, extraction or media-download failures it met (i.e. unless the
\* directory creation, the template or the file write itself failed), has
\* saved exactly one record; no run saves more than one.
C1_ExactlyOneRecord ==
    /\ saved <= 1
    /\ (entry = "app" /\ pc = "done" /\ emailData # <<>>
            /\ failedStage \notin StorageStages) => saved = 1

C1_Witness ==
    /\ entry = "app" /\ pc = "done" /\ saved = 1
    /\ AnyItem(imgs, Rejected) /\ AnyItem(vids, Rejected)

\* C2: after a failed page fetch or a throwing parseWeiboData the Post is
\* the fallback record (author "Error", originText the raw mail body) and
\* the run goes on to the save step.
C2_FallbackOnFailure ==
    (entry = "app" /\ FetchOrParseFailed) =>
        /\ weiboData # <<>>
        /\ Val(weiboData).outerUser = "Error"
        /\ Val(weiboData).originTextMD = Val(mail).html
        /\ \/ pc \in {"rendering", "saving"}
           \/ pc = "done" /\ (saved = 1 \/ failedStage \in {"render", "save"})

C2_Witness ==
    /\ entry = "app" /\ parsed = "threw" /\ pc = "done" /\ saved = 1
    /\ Val(weiboData).originTextMD = preString \o AnchorX

\* C3: the promise of processWeiboPost never rejects, whatever stage
\* fails, and the listener can deliver the next mail afterwards.
C3_NeverRejects ==
    entry = "app" =>
        /\ result # "rejected"
        /\ (pc = "done" /\ mailNo < MaxMails) => ENABLED NextMail

C3_Witness ==
    /\ entry = "app" /\ prevFailed /\ mailNo = 2
    /\ pc = "done" /\ failedStage = "save"

\* what a returned batch must satisfy
BatchClean(kind, items, titles) ==
    /\ \A i \in 1..Len(items) : items[i] \in Rejected =>
            (i - 1) \notin Range(titles) /\ <<kind, i - 1>> \in failedLog
    /\ \A k \in 1..Len(titles) : titles[k] # NullTitle =>
            items[titles[k] + 1] = "written"
    /\ (\A i \in 1..Len(items) : items[i] # "nulled") =>
            (\A k \in 1..Len(titles) : titles[k] # NullTitle)
    /\ Len(titles) <= Len(items)

\* C4: a batch does not reject because an item failed; a failed URL is
\* left out of the returned sequence and reported; every filename returned
\* is that of an item whose file was written, and when every entry of the
\* batch is a URL string every element returned is a filename; the
\* sequence is no longer than the input.
C4_BatchIsolatesFailures ==
    entry = "app" =>
        /\ failedStage # "media"
        /\ imgJoined => BatchClean("image", imgs, downloadedImages)
        /\ vidJoined => BatchClean("video", vids, downloadedVideos)

C4_Witness ==
    /\ entry = "app" /\ imgJoined
    /\ Len(imgs) = 2 /\ imgs[1] = "written" /\ imgs[2] = "bad_status"
    /\ downloadedImages = <<0>>
    /\ <<"image", 1>> \in failedLog

\* C5, in a state: the items of a batch are dispatched together; a batch
\* has returned only if all its items are settled; while an item is in
\* flight neither the batch nor the save has completed.
BatchBarrier ==
    entry = "app" =>
        /\ AnyItem(imgs, {"idle"}) => ~AnyItem(imgs, Settled \cup InFlight)
        /\ AnyItem(vids, {"idle"}) => ~AnyItem(vids, Settled \cup InFlight)
        /\ imgJoined => AllSettledJoin(imgs)
        /\ vidJoined => AllSettledJoin(vids)
        /\ (AnyItem(imgs, InFlight) \/ AnyItem(vids, InFlight)) =>
                saved = 0 /\ pc \in {"images", "videos"}
        /\ AnyItem(imgs, InFlight) => ~imgJoined
        /\ AnyItem(vids, InFlight) => ~vidJoined

\* C5, in a step: the failure of one item leaves every sibling as it was
\* and does not end the batch
FailureIsolated(items, itemsNext) ==
    \A i \in 1..Len(items) :
        (Len(itemsNext) = Len(items) /\ items[i] \in InFlight
             /\ itemsNext[i] \in Rejected) =>
            /\ \A j \in 1..Len(items) : j # i => itemsNext[j] = items[j]
            /\ pc' = pc

\* C5: all items are dispatched before any is awaited, the batch returns
\* only after every item has settled, a failure neither cancels a sibling
\* nor ends the batch, and an item that never settles keeps the batch and
\* the save from completing.
C5_AllSettledBarrier ==
    /\ []BatchBarrier
    /\ [][entry = "app" => FailureIsolated(imgs, imgs') /\ FailureIsolated(vids, vids')]_vars

C5_Witness ==
    /\ entry = "app" /\ pc = "images" /\ Len(imgs) = 2
    /\ imgs[1] = "bad_status" /\ imgs[2] = "streaming"
    /\ ~imgJoined /\ saved = 0

\* C6: the page fetch is over before the Post exists; no media is
\* dispatched before the Post exists; the videos are dispatched only after
\* the image batch has settled and returned; the record is written only
\* after both batches have settled.
C6_StrictOrder ==
    entry = "app" =>
        /\ weiboData # <<>> => fetchResult \in FetchOutcomes
        /\ (imgs # <<>> \/ vids # <<>>) => weiboData # <<>>
        /\ AnyItem(vids, Settled \cup InFlight) =>
                AllSettledJoin(imgs) /\ (imgs # <<>> => imgJoined)
        /\ (pc = "saving" \/ saved > 0) =>
                /\ AllSettledJoin(imgs) /\ AllSettledJoin(vids)
                /\ imgs # <<>> => imgJoined
                /\ vids # <<>> => vidJoined

C6_Witness ==
    /\ entry = "app" /\ pc = "done" /\ saved = 1
    /\ Len(imgs) = 2 /\ Len(vids) = 1
    /\ imgs[1] = "written" /\ vids[1] = "written"

\* C7: a mail in whose body no post URL is located is skipped: parseEmail
\* returns null, processWeiboPost is not invoked, no page is fetched and
\* no record is saved.
C7_NoUrlNoRun ==
    (entry = "app" /\ mail # <<>>
        /\ extractWeiboUrlFromMailBody(Val(mail).html) = null) =>
            /\ emailData = <<>>
            /\ ~invoked
            /\ fetches = 0
            /\ weiboData = <<>>
            /\ saved = 0

C7_Witness ==
    /\ entry = "app" /\ pc = "done" /\ result = "skipped"
    /\ arrayIncludes(allowedFrom, Val(mail).from)
    /\ includes(Val(mail).subject, subjectFilter)
    /\ Val(mail).html = preString \o AnchorOther

\* the sender is exactly one of the configured addresses
SenderConfigured(a) == arrayIncludes(split(MAIL_ALLOWED_FROM, <<",">>), a)

\* C8: in both programs a mail whose sender is not exactly one of the
\* configured addresses, or whose subject lacks the share marker, triggers
\* no page fetch, no media download and no saved record.
C8_OnlyAllowedMailsTrigger ==
    (mail # <<>> /\ (\/ ~SenderConfigured(Val(mail).from)
                     \/ ~includes(Val(mail).subject, subjectFilter))) =>
        /\ fetches = 0
        /\ imgs = <<>> /\ vids = <<>>
        /\ saved = 0

\* C11: the current locator never throws: for every input, a body that
\* is not a string included, its result is null or a string that starts
\* with the mobile prefix, and the call changes nothing but its result.
C11_LocatorNeverThrows ==
    /\ [](upc = "located" =>
            /\ urlResult # THROWN
            /\ urlResult = null \/ startsWith(urlResult, mWeiboPre))
    /\ [][upc' = "located" => UNCHANGED <<body, fnVars, redNote, auxVars, pipeVars>>]_vars

C11_Witness == upc = "located" /\ body = NotAString /\ urlResult = null

\* C12: two fallback records made for the same error with different
\* discriminators get different titles and different Markdown filenames:
\* the discriminator survives the truncation to 40 characters and the
\* filename filter.
C12_FallbackTitlesDistinct ==
    (fpc = "done" /\ fin.fn = "title" /\ fin.uuid1 # fin.uuid2) =>
        /\ fout.title1 # fout.title2
        /\ mdFilename(fout.title1) # mdFilename(fout.title2)

C12_Witness ==
    /\ fpc = "done" /\ fin.fn = "title"
    /\ fin.uuid1 # fin.uuid2
    /\ Len(fin.message) > maxLength
    /\ Len(fout.title1) = Len(ErrorUser) + 1 + maxLength
    /\ fout.title1 # fout.title2

\* the extractor found no text, no image and no video in the document
NothingExtracted(document) ==
    /\ extractTextContent(document) = <<>>
    /\ extractImages(document) = <<>>
    /\ extractVideos(document) = <<>>

\* C13: when the extractor finds nothing, fetchRedNoteContent returns a
\* post whose text is the no-content message with the source URL, and
\* processRedNotePost carries it on as an ordinary extraction (not the
\* fallback of createFallbackRedNoteData) with no media to the rendering
\* and the save; when something was found the text is the extracted one.
C13_NoContentIsOrdinaryPost ==
    (entry = "rednote" /\ redNote # <<>>) =>
        LET document == Val(redNote).document
            rawData == Val(redNote).rawData
            url == Val(emailData).redNoteUrl
        IN  /\ fetchResult = "data" /\ parsed = "ok"
            /\ Val(weiboData).title # FailedToFetch
            /\ NothingExtracted(document) =>
                   /\ rawData.text = NoContentMessage(url)
                   /\ includes(rawData.text, url)
                   /\ Val(weiboData).text = NoContentMessage(url)
                   /\ imgs = <<>> /\ vids = <<>>
                   /\ pc \in {"rendering", "saving", "done"}
                   /\ pc = "done" => (saved = 1 \/ failedStage \in {"render", "save"})
            /\ ~NothingExtracted(document) =>
                   rawData.text = extractTextContent(document)

C13_Witness ==
    /\ entry = "rednote" /\ redNote # <<>>
    /\ Val(redNote).document = AvatarPage
    /\ Val(weiboData).text = NoContentMessage(Val(emailData).redNoteUrl)
    /\ pc = "done" /\ saved = 1 /\ result = "saved"

\* a parse that returned
Parsed(r) == fpc = "done" /\ fin.fn = "parse" /\ r # Thrown

RetweetOf(allData) == allData.status.retweeted_status

\* C14: for a repost whose retweeted status has isLongText = true and a
\* longText.longTextContent, both parsers build originText from
\* longTextContent, whatever the truncated text field holds.
C14_LongRepostUsesLongText ==
    (fpc = "done" /\ fin.fn = "parse" /\ RetweetOf(fin.allData) # <<>>
        /\ Val(RetweetOf(fin.allData)).isLongText
        /\ longTextContentOf(Val(RetweetOf(fin.allData))) # <<>>) =>
        LET content == longTextContentOf(Val(RetweetOf(fin.allData)))
        IN  /\ fout.parser # Thrown =>
                   fout.parser.originTextMD = turndown(cleanWeiboText(content))
            /\ fout.legacy # Thrown =>
                   fout.legacy.originTextMD = turndown(content)

\* the picture items a parser is given
SourcePics(allData) ==
    Range(allData.status.pics)
        \cup (IF RetweetOf(allData) = <<>> THEN {}
              ELSE Range(Val(RetweetOf(allData)).pics))

NoVideoItemAmongImages(allData, r) ==
    \A pic \in SourcePics(allData) :
        (pic.videoSrc # <<>> /\ imageUrlOf(pic) # <<>>) =>
            imageUrlOf(pic) \notin Range(r.largeImgs)

\* C15: in both parsers no entry of largeImgs comes from a picture item
\* that carries a videoSrc.
C15_NoVideoItemInImages ==
    /\ Parsed(fout.parser) => NoVideoItemAmongImages(fin.allData, fout.parser)
    /\ Parsed(fout.legacy) => NoVideoItemAmongImages(fin.allData, fout.legacy)

AllFromCdn(urls) == \A i \in 1..Len(urls) : startsWith(urls[i], CdnPrefix)

\* C16: in both parsers every URL of videoPageUrls starts with the
\* video-CDN prefix.
C16_VideosFromCdnOnly ==
    /\ Parsed(fout.parser) => AllFromCdn(fout.parser.videoPageUrls)
    /\ Parsed(fout.legacy) => AllFromCdn(fout.legacy.videoPageUrls)

\* 'YYYY-MM-DD HH:MM:SS'
IsNormalized(ts) ==
    ts = <<"Y", "Y", "Y", "Y", "-", "M", "M", "-", "D", "D", " ",
           "h", "h", ":", "m", "m", ":", "s", "s">>

\* C17: the createdAt of the Post built by weibo-parser parseWeiboData and
\* of the fallback Post is exactly 'YYYY-MM-DD HH:MM:SS'.
C17_CreatedAtNormalized ==
    /\ Parsed(fout.parser) => IsNormalized(fout.parser.createdAt)
    /\ (fpc = "done" /\ fin.fn = "fallbackDate") => IsNormalized(fout.createdAt)

\* C18: when the Post is the fallback record its image and video lists are
\* empty, no image or video request is ever dispatched in that run, and
\* the record that is saved names no media file.
C18_FallbackHasNoMedia ==
    (entry = "app" /\ FetchOrParseFailed /\ weiboData # <<>>) =>
        /\ Len(Val(weiboData).largeImgs) = 0
        /\ Len(Val(weiboData).videoPageUrls) = 0
        /\ imgs = <<>> /\ vids = <<>>
        /\ pc \notin {"images", "videos"}
        /\ ~imgJoined /\ ~vidJoined
        /\ downloadedImages = <<>> /\ downloadedVideos = <<>>
        /\ failedLog = {}
        /\ fetches = 1

C18_Witness ==
    /\ entry = "app" /\ parsed = "threw" /\ weiboData # <<>>
    /\ pc = "done" /\ saved = 1 /\ result = "saved"
    /\ imgs = <<>> /\ vids = <<>> /\ downloadedImages = <<>>

\* the raw content the element at position i offers to `selector`
RawContent(document, i, selector) ==
    IF selectorIsMeta(selector) THEN document[i].attrs["content"]
    ELSE document[i].text

\* position i is the first element of the document that `selector` matches
FirstMatch(document, i, selector) ==
    /\ selector \in document[i].sels
    /\ \A j \in 1..(i - 1) : selector \notin document[j].sels

\* `selector` yields content: its element exists and, trimmed, is not empty
Yields(document, selector) ==
    \E i \in 1..Len(document) :
        /\ FirstMatch(document, i, selector)
        /\ \E t \in 1..Len(RawContent(document, i, selector)) :
               RawContent(document, i, selector)[t] \notin Whitespace

\* `value` is the content of the element of `selector`, without the
\* whitespace at its two ends
IsTrimmedContentOf(value, document, selector) ==
    \E i \in 1..Len(document) :
        /\ FirstMatch(document, i, selector)
        /\ value # <<>>
        /\ Head(value) \notin Whitespace
        /\ value[Len(value)] \notin Whitespace
        /\ \E a, b \in 0..Len(RawContent(document, i, selector)) :
               LET raw == RawContent(document, i, selector)
               IN  /\ a + Len(value) + b = Len(raw)
                   /\ SubSeq(raw, a + 1, a + Len(value)) = value
                   /\ \A t \in (1..a) \cup ((Len(raw) - b + 1)..Len(raw)) :
                          raw[t] \in Whitespace

\* first match wins over `selectors`, `default` when no selector yields
FirstMatchWins(value, document, selectors, default) ==
    /\ \A k \in 1..Len(selectors) :
           (/\ Yields(document, selectors[k])
            /\ \A j \in 1..(k - 1) : ~Yields(document, selectors[j]))
               => IsTrimmedContentOf(value, document, selectors[k])
    /\ (\A k \in 1..Len(selectors) : ~Yields(document, selectors[k]))
           => value = default

\* C19: text, title and author are each the trimmed content of the first
\* selector of their list whose element exists and has non-empty trimmed
\* content; a later selector never overrides it, and with no such selector
\* the field is '', 'Untitled' or 'Unknown'.
C19_FirstSelectorWins ==
    (fpc = "done" /\ fin.fn = "extract") =>
        /\ FirstMatchWins(fout.text, fin.document, SELECTORS_text, <<>>)
        /\ FirstMatchWins(fout.title, fin.document, SELECTORS_title, Untitled)
        /\ FirstMatchWins(fout.author, fin.document, SELECTORS_author, Unknown)

\* the h1 comes first in the page and the .title after it: the .title wins
C19_Witness ==
    /\ fpc = "done" /\ fin.fn = "extract"
    /\ fin.document = <<FieldElement({"h1"}, PaddedContent("h1")),
                        FieldElement({".title"}, PaddedContent(".title"))>>
    /\ fout.title = <<".title">>
    /\ fout.text = <<>> /\ fout.author = Unknown

\* the attributes of an image element in the order src, data-src,
\* data-original, data-url
PreferenceOrder == <<"src", "data-src", "data-original", "data-url">>

\* `url` is the first non-empty attribute of `img` in the preference order
IsPreferredUrl(url, img) ==
    \E k \in 1..Len(PreferenceOrder) :
        /\ img.attrs[PreferenceOrder[k]] = url
        /\ url # <<>>
        /\ \A j \in 1..(k - 1) : img.attrs[PreferenceOrder[j]] = <<>>

Acceptable(url) ==
    /\ includes(url, <<"http">>)
    /\ ~includes(url, <<"avatar">>)
    /\ ~includes(url, <<"picasso">>)

NoDuplicates(list) ==
    \A i, j \in 1..Len(list) : list[i] = list[j] => i = j

\* C20: every entry of the image list is the first non-empty attribute, in
\* the order src, data-src, data-original, data-url, of some image element
\* (an element with both src and data-src gives its src); it contains
\* 'http' and neither 'avatar' nor 'picasso'; the list has no duplicates.
C20_ImagePreferenceOrder ==
    (fpc = "done" /\ fin.fn = "images") =>
        /\ \A i \in 1..Len(fout.images) :
               /\ \E e \in 1..Len(fin.document) :
                      IsPreferredUrl(fout.images[i], fin.document[e])
               /\ Acceptable(fout.images[i])
        /\ NoDuplicates(fout.images)
        /\ \A e \in 1..Len(fin.document) :
               (Len(fin.document) = 1 /\ fin.document[e].attrs["src"] # <<>>
                   /\ Acceptable(fin.document[e].attrs["src"])) =>
                       fout.images = <<fin.document[e].attrs["src"]>>

\* the URLs the elements of the video selectors and the og:video meta tag
\* of a document carry in their attributes
ElementVideoUrls(document) ==
    { document[i].attrs[a] :
        i \in {j \in 1..Len(document) :
                 document[j].sels \cap (Range(SELECTORS_videos) \cup {"meta[og:video]"}) # {}},
        a \in AttrNames }

\* C21: the scan of the inline scripts is a last resort: when the selector
\* scan found at least one video, no URL that only a script body holds is
\* in the video list; when it found none, the URLs of the scripts are.
C21_ScriptScanIsLastResort ==
    (fpc = "done" /\ fin.fn = "videos") =>
        /\ fout.bySelectors # <<>> =>
               Range(fout.videos) \subseteq ElementVideoUrls(fin.document)
        /\ (fout.bySelectors = <<>> /\ ScriptWith(VidB) \in Range(fin.document)) =>
               VidB \in Range(fout.videos)

\* ten characters, digits around two dashes
IsDateString(str) ==
    /\ Len(str) = 10
    /\ \A i \in 1..10 : IF i \in {5, 8} THEN str[i] = "-" ELSE str[i] \in Digits

\* the one element of the document offers `raw` as its date
OnlyDateIs(raw) ==
    /\ Len(fin.document) = 1
    /\ raw \in {fin.document[1].text, fin.document[1].attrs["datetime"],
                fin.document[1].attrs["content"]}

\* C22: extractDate always returns a date string; the current year is put
\* before a compact MM-DD only; a value with a year that the generic
\* parsing accepts keeps its year, month and day; a value that neither
\* stage parses gives the current date.
C22_DateStages ==
    (fpc = "done" /\ fin.fn = "date") =>
        /\ IsDateString(fout.createdAt)
        /\ OnlyDateIs(CompactDate) =>
               fout.createdAt = CurrentYear \o <<"-", "0", "5", "-", "0", "6">>
        /\ (OnlyDateIs(IsoDate) \/ OnlyDateIs(SlashDate)) => fout.createdAt = IsoDate
        /\ (OnlyDateIs(WordDate) \/ OnlyDateIs(BlankContent)) => fout.createdAt = Today
        /\ fin.document = <<>> => fout.createdAt = Today

\* C23: two runs in flight together with the same title save under two
\* distinct names and neither record overwrites the other.
C23_ConcurrentSavesDistinct ==
    (\A r \in Runs : saveRun[r].pc = "done") =>
        /\ \A r1, r2 \in Runs : r1 # r2 => saveRun[r1].chosen # saveRun[r2].chosen
        /\ \A r \in Runs : <<saveRun[r].chosen, r>> \in files

\* C30, the step in which generateUniqueFilename returns: the name is not
\* in the directory, every smaller number is, and no file has changed
UniqueReturns ==
    \A r \in Runs :
        (saveRun[r].pc = "probing" /\ saveRun'[r].pc = "writing") =>
            /\ saveRun'[r].chosen \notin Names(files)
            /\ \A k \in 0..(saveRun'[r].chosen - 1) : k \in Names(files)
            /\ files' = files

\* C30: generateUniqueFilename terminates and returns a name that is not
\* in the directory: '<filename>.md' when free, otherwise the
\* '<filename>-<k>.md' of the smallest free k >= 1; no step of it creates,
\* changes or deletes a file.
C30_UniqueNameTerminates ==
    /\ [][UniqueReturns]_vars
    /\ [][(\E r \in Runs : saveRun[r].pc = "probing" /\ saveRun'[r] # saveRun[r])
               => files' = files]_vars
    /\ \A r \in Runs : (saveRun[r].pc = "probing") ~> (saveRun[r].pc = "writing")

C30_Witness ==
    \E r \in Runs :
        /\ saveRun[r].pc = "writing" /\ saveRun[r].chosen = 2
        /\ Names(files) = {0, 1}

\* an item comes to count as successful in this step only out of the
\* state in which its body is being piped to the file
SuccessOnlyAfterFinish(items, itemsAfter) ==
    \A i \in (1..Len(items)) \cap (1..Len(itemsAfter)) :
        (itemsAfter[i] = "written" /\ items[i] # "written") => items[i] = "streaming"

\* what the record references of a batch: written files only, and no item
\* whose stream failed
ReferencesWrittenOnly(kind, items, titles) ==
    /\ \A k \in 1..Len(titles) :
           titles[k] # NullTitle =>
               /\ titles[k] + 1 \in 1..Len(items)
               /\ items[titles[k] + 1] = "written"
    /\ \A i \in 1..Len(items) :
           items[i] = "stream_error" =>
               /\ (i - 1) \notin Range(titles)
               /\ <<kind, i - 1>> \in failedLog

C25_OneMailPerMessage ==
    imap.started => \A m \in Messages : imap.emitted[m] <= 1

\* C26: whenever the scripts of the fetched page set the data object, at
\* once or after asynchronous loading, fetchWeiboContent returns that
\* object and does not report it as absent.
C26_ReadsAfterPageLogic ==
    (page.pc \in {"loading", "settled"} /\ page.kind # "never") =>
        page.result = <<[allData |-> page.data]>>

\* the entries of a batch whose file was downloaded
Downloaded(items) == {i \in 1..Len(items) : items[i] = "written"}

NoNullTitles(items, titles) ==
    /\ \A k \in 1..Len(titles) : titles[k] # NullTitle
    /\ Len(titles) = Cardinality(Downloaded(items))

\* C27: every element of what downloadImages / downloadVideos return is a
\* non-null filename of a file written for an input URL; an entry that is
\* empty or no string contributes no element, so the number of elements is
\* the number of URLs downloaded.
C27_ReturnsFilenamesOnly ==
    entry = "app" =>
        /\ imgJoined => NoNullTitles(imgs, downloadedImages)
        /\ vidJoined => NoNullTitles(vids, downloadedVideos)

\* the titles that are filenames carry increasing indexes
InIndexOrder(titles) ==
    \A k1, k2 \in 1..Len(titles) :
        (k1 < k2 /\ titles[k1] # NullTitle /\ titles[k2] # NullTitle) =>
            titles[k1] < titles[k2]

\* C28: the filenames returned by downloadImages / downloadVideos are in
\* the order of the input indexes, whatever the order in which the
\* downloads complete.
C28_ResultInInputOrder ==
    entry = "app" =>
        /\ imgJoined => InIndexOrder(downloadedImages)
        /\ vidJoined => InIndexOrder(downloadedVideos)

\* the second picture was written before the first
C28_Witness ==
    /\ entry = "app" /\ imgJoined
    /\ imgs = <<"written", "written">>
    /\ SelectSeq(finishOrder, LAMBDA e : e[1] = "image") = << <<"image", 2>>, <<"image", 1>> >>
    /\ downloadedImages = <<0, 1>>

\* no whitespace, no '#', no character that is invalid in a filename, and
\* neither '(https' nor '![['
IsCleanFilename(name) ==
    /\ \A i \in 1..Len(name) :
           name[i] \notin Whitespace \cup {"#"} \cup InvalidFilenameChars
    /\ ~includes(name, <<"(", "h", "t", "t", "p", "s">>)
    /\ ~includes(name, <<"!", "[", "[">>)

\* C29: the result of createFilenameFromTitle is clean for every input,
\* and applying the function to its own result returns it unchanged.
C29_FilenameFilterIdempotent ==
    (fpc = "done" /\ fin.fn = "filename") =>
        /\ IsCleanFilename(fout.once)
        /\ fout.twice = fout.once

====
